---------------------------- MODULE Spec2Model ----------------------------
(***************************************************************************)
(* A model of the SMP rCore kernel's scheduler core:                       *)
(*   - TaskManager (per-hart ready queue, stride fetch)   task/manager.rs  *)
(*   - run_tasks (idle loop, dispatch)                    task/processor.rs*)
(*   - SMPSafeCell (compare-exchange spin cell)           sync/smp.rs      *)
(*   - Banker's deadlock detection of the sync syscalls   syscall/sync.rs  *)
(*                                                                         *)
(* An Option<T> is modelled as a sequence of length at most one:           *)
(* None is << >> and Some(x) is << x >>.  Rust indices are 0-based, the    *)
(* sequences of the model are 1-based: index i of the code is i+1 here.    *)
(***************************************************************************)
EXTENDS Integers, Sequences, FiniteSets, TLC

(***************************************************************************)
(* Bounds of the model.                                                    *)
(***************************************************************************)
NHart == 2
MaxThreads == 3
MaxTasks == 2
MaxIter == 4
MaxPid == 2
NTid == 2
NMutex == 2
NSem == 1
MaxCount == 2
NCond == 1
NSemTid == 3
MaxItems == 5
SlotCount == 3
NPages == 3
MaxAreas == 2
EntriesPerBlock == 2
MaxBlocks == 6
MaxInodes == 2
MaxDirEntries == 3
MaxFsCalls == 4

(***************************************************************************)
(* Program constants.                                                      *)
(***************************************************************************)
BIG_STRIDE == 32768
I32_MAX == 2147483647
DEAD == 57005

VARIABLES
    ready_queue,   \* TaskManager.ready_queue of every hart
    current,       \* Processor.current of every hart (an Option)
    stride,        \* TaskControlBlockInner.stride per thread
    priority,      \* TaskControlBlockInner.priority per thread
    fetched,       \* observation: the last call of TaskManager::fetch
    iter,          \* observation: idle-loop iterations that dispatched
    dispatched,    \* observation: threads dispatched so far
    stride0,       \* observation: the strides at the start
    nthreads,      \* observation: K, the threads queued at the start
    lock,          \* SMPSafeCell.lock of every cell
    guards,        \* the live SMPSafeCellGuards of every hart
    borrows,       \* the live Ref / RefMut of every hart
    pid2pcb,       \* the keys of the PID2PCB map
    pc,            \* where every hart is in the function it executes
    loc,           \* the arguments and locals of that function
    spins,         \* observation: parity of the failed turns of the spin loop
    panicked,      \* the kernel has panicked
    overflow_checks,      \* the build panics on integer overflow (else wraps)
    detect,               \* is_detect_deadlock_enable
    mutex_available,      \* mutex_available[mid]
    mutex_need,           \* mutex_need[tid][mid]
    mutex_allocated,      \* mutex_allocated[tid][mid]
    semaphore_available,  \* semaphore_available[sid]
    semaphore_need,       \* semaphore_need[tid][sid]
    semaphore_allocated,  \* semaphore_allocated[tid][sid]
    mutex_owner,          \* MutexBlocking: locked, and by which thread
    mutex_wait,           \* MutexBlocking: wait_queue
    sem_count,            \* Semaphore: count
    sem_wait,             \* Semaphore: wait_queue
    cv_wait,              \* Condvar: wait_queue
    res_count,            \* res_count[sid] given to sys_semaphore_create
    tstate,               \* every thread: in user mode, blocked, or woken
    last,                 \* observation: the syscall of the step just taken
    children,      \* ProcessControlBlockInner.children of the parent, by pid
    is_zombie,     \* ProcessControlBlockInner.is_zombie of every child
    exit_code,     \* ProcessControlBlockInner.exit_code of every child
    kill_hold,     \* the Arc every hart holds inside sys_kill (an Option)
    waited,        \* observation: the sys_waitpid call of the step just taken
    areas,         \* MemorySet.areas of the caller, in the order pushed
    valid,         \* the pages with a valid entry in the caller's page table
    mm_last,       \* observation: the memory call of the step just taken
    signals,       \* ProcessControlBlockInner.signals of the caller
    trap_cx,       \* the trap contexts of the thread: sepc, x10, x17
    cur_cx,        \* the context current_trap_cx() returns
    tpc,           \* where the thread is: in user mode or inside trap_handler
    tloc,          \* the locals of trap_handler
    events,        \* observation: what trap_handler has done since the trap
    ktrap,         \* observation: the last call of trap_from_kernel
    root_inode,    \* the DiskInode of the root directory: size, blocks, data
    files,         \* the DiskInode of every file inode
    inode_bitmap,  \* EasyFileSystem.inode_bitmap: the allocated inode ids
    data_bitmap,   \* EasyFileSystem.data_bitmap: the allocated data blocks
    fs_lock,       \* the Mutex<EasyFileSystem>: the hart holding it
    fpc,           \* where every hart is in the Inode method it executes
    floc,          \* the arguments and locals of that method
    fs_hist,       \* observation: the calls that returned, oldest first
    stop_task,     \* TaskManager.stop_task of every hart (an Option)
    leaving,       \* the thread of every hart that is blocking or exiting
    timers         \* the threads with a timer registered by sys_sleep

schedVars == << ready_queue, current, stride, priority, fetched, iter,
                dispatched, stride0, nthreads >>

smpVars == << lock, guards, borrows, pid2pcb, pc, loc, spins, panicked >>

syncVars == << overflow_checks, detect, mutex_available, mutex_need,
               mutex_allocated, semaphore_available, semaphore_need,
               semaphore_allocated, mutex_owner, mutex_wait, sem_count,
               sem_wait, cv_wait, res_count, tstate, last >>

procVars == << children, is_zombie, exit_code, kill_hold, waited >>

mmVars == << areas, valid, mm_last >>

trapLocalVars == << trap_cx, cur_cx, tpc, tloc, events >>

trapVars == << signals, trapLocalVars, ktrap >>

fsVars == << root_inode, files, inode_bitmap, data_bitmap, fs_lock, fpc, floc,
            fs_hist >>

stopVars == << stop_task, leaving, timers >>

sysVars == << procVars, mmVars, trapVars, fsVars, stopVars >>

vars == << schedVars, smpVars, syncVars, sysVars >>

Harts == 0 .. NHart - 1
Threads == 1 .. MaxThreads
Tasks == 1 .. MaxTasks
Pids == 1 .. MaxPid
Tids == 0 .. NTid - 1
Mutexes == 0 .. NMutex - 1
Sems == 0 .. NSem - 1
Condvars == 0 .. NCond - 1
SemTids == 0 .. NSemTid - 1

(***************************************************************************)
(* The cells: TASK_MANAGER[h] is cell h, PID2PCB is cell NHart.            *)
(***************************************************************************)
PidCell == NHart
Cells == Harts \cup {PidCell}

None == << >>
Some(x) == << x >>

NoLocals == [task |-> None, i |-> 0, min_hart_id |-> 0, min_length |-> 0,
             seen |-> << >>, pid |-> None, pre |-> << >>, post |-> << >>]

NoCall == [kind |-> "none"]

(***************************************************************************)
(* Where a thread stands: in user mode, blocked in a lock or down call on  *)
(* a primitive, or woken and about to go on with that call.                *)
(***************************************************************************)
InUser == [st |-> "user", kind |-> "none", id |-> 0]
Blocked(kind, id) == [st |-> "blocked", kind |-> kind, id |-> id]
Woken(kind, id) == [st |-> "woken", kind |-> kind, id |-> id]

(***************************************************************************)
(* wakeup_task on a blocked thread: it goes on with the call it is in.     *)
(***************************************************************************)
WokenAs(blocked) == [blocked EXCEPT !.st = "woken"]

(***************************************************************************)
(* A thread blocked in Condvar::wait(mutex) on condvar id keeps the mutex  *)
(* it is to lock again.                                                    *)
(***************************************************************************)
BlockedInWait(id, m) ==
    [st |-> "blocked", kind |-> "condvar", id |-> id, mutex |-> m]

(***************************************************************************)
(* The sync state of a process at rest: no syscall issued yet.             *)
(***************************************************************************)
SyncObjectsAtRest ==
    /\ detect = FALSE
    /\ mutex_available = [m \in Mutexes |-> 1]
    /\ mutex_need = [t \in Tids |-> [m \in Mutexes |-> 0]]
    /\ mutex_allocated = [t \in Tids |-> [m \in Mutexes |-> 0]]
    /\ semaphore_available = [x \in Sems |-> 0]
    /\ semaphore_need = [t \in Tids |-> [x \in Sems |-> 0]]
    /\ semaphore_allocated = [t \in Tids |-> [x \in Sems |-> 0]]
    /\ mutex_owner = [m \in Mutexes |-> None]
    /\ mutex_wait = [m \in Mutexes |-> << >>]
    /\ sem_count = [x \in Sems |-> 0]
    /\ res_count = [x \in Sems |-> 0]
    /\ sem_wait = [x \in Sems |-> << >>]
    /\ cv_wait = [c \in Condvars |-> << >>]
    /\ tstate = [t \in Tids |-> InUser]
    /\ last = NoCall

SyncAtRest == overflow_checks = FALSE /\ SyncObjectsAtRest

(***************************************************************************)
(* A process at rest outside the sync calls: no child, an empty user       *)
(* memory set, no pending signal.                                          *)
(***************************************************************************)
ProcAtRest ==
    /\ children = << >>
    /\ is_zombie = [p \in Pids |-> FALSE]
    /\ exit_code = [p \in Pids |-> 0]
    /\ kill_hold = [h \in Harts |-> None]
    /\ waited = NoCall

MmAtRest ==
    /\ areas = << >>
    /\ valid = {}
    /\ mm_last = NoCall

Contexts == { 0, 1 }

NoTrap == [cause |-> "none", cx |-> 0, sepc0 |-> 0, id0 |-> 0, result |-> 0,
           scause |-> "none", added |-> None, reported |-> None]

TrapAtRest ==
    /\ signals = {}
    /\ trap_cx = [c \in Contexts |-> [sepc |-> 0, x10 |-> 0, x17 |-> 0]]
    /\ cur_cx = 0
    /\ tpc = "user"
    /\ tloc = NoTrap
    /\ events = << >>
    /\ ktrap = NoCall

(***************************************************************************)
(* The filesystem at rest: an empty root directory, inode 0 (the root)     *)
(* the only inode allocated, no data block allocated, nobody in a call.    *)
(***************************************************************************)
FileInodes == 1 .. MaxInodes

EmptyDiskInode == [size |-> 0, direct |-> << >>, data |-> << >>]

EmptyDirEntry == [name |-> "", inode_id |-> 0]

NoSnapshot == [dir |-> << >>, size |-> 0, data_bitmap |-> {},
               inode_bitmap |-> {0},
               files |-> [i \in FileInodes |-> EmptyDiskInode]]

NoFsCall == [op |-> "none", name |-> "", old |-> "", ino |-> 0,
             buf |-> << >>, file_count |-> 0, remove_index |-> 0,
             last_dirent |-> EmptyDirEntry, link_inode_id |-> 0,
             recycle_blocks |-> << >>, ret |-> 0, found |-> None,
             pre |-> NoSnapshot, alone |-> TRUE, k |-> 0]

FsAtRest ==
    /\ root_inode = EmptyDiskInode
    /\ files = [i \in FileInodes |-> EmptyDiskInode]
    /\ inode_bitmap = {0}
    /\ data_bitmap = {}
    /\ fs_lock = None
    /\ fpc = [h \in Harts |-> "idle"]
    /\ floc = [h \in Harts |-> NoFsCall]
    /\ fs_hist = << >>

(***************************************************************************)
(* No thread is blocking or exiting, no stop slot is occupied.             *)
(***************************************************************************)
StopAtRest ==
    /\ stop_task = [h \in Harts |-> None]
    /\ leaving = [h \in Harts |-> None]
    /\ timers = {}

SysAtRest == ProcAtRest /\ MmAtRest /\ TrapAtRest /\ FsAtRest /\ StopAtRest

(***************************************************************************)
(* The cells and harts at rest: no guard, no borrow, every hart between    *)
(* two calls.                                                              *)
(***************************************************************************)
SmpAtRest ==
    /\ lock = [c \in Cells |-> FALSE]
    /\ guards = [h \in Harts |-> {}]
    /\ borrows = [h \in Harts |-> {}]
    /\ pc = [h \in Harts |-> "idle"]
    /\ loc = [h \in Harts |-> NoLocals]
    /\ spins = [h \in Harts |-> FALSE]
    /\ panicked = FALSE

(***************************************************************************)
(* Strides and priorities the threads may start with.  Every stride is a   *)
(* sum of increments BIG_STRIDE / priority, so it is a value a thread      *)
(* reaches by being dispatched; priorities are at least 2.                 *)
(***************************************************************************)
StrideChoices == { 0, BIG_STRIDE \div 4, BIG_STRIDE \div 2 }
PriorityChoices == { 2, 4 }

(***************************************************************************)
(* VecDeque::remove(i): the queue without its element at (1-based) i.      *)
(***************************************************************************)
RemoveAt(q, i) == SubSeq(q, 1, i - 1) \o SubSeq(q, i + 1, Len(q))

(***************************************************************************)
(* The loop of TaskManager::fetch, lines 41-46.  min_stride is read once   *)
(* from the front (line 39) and is not assigned in the loop; every element *)
(* whose stride is below it overwrites min_stride_block.                   *)
(***************************************************************************)
RECURSIVE FetchScan(_, _, _, _, _)
FetchScan(q, st, min_stride, index, min_stride_block) ==
    IF index > Len(q)
    THEN min_stride_block
    ELSE FetchScan(q, st, min_stride, index + 1,
                   IF st[q[index]] < min_stride THEN index
                                                ELSE min_stride_block)

\* A fetch that returns the entry at the back of the queue.
FetchIndexBack(q, st) == Len(q)

(***************************************************************************)
(* The index TaskManager::fetch removes, for a non-empty queue.            *)
(***************************************************************************)
FetchIndex(q, st) == FetchScan(q, st, st[q[1]], 1, 1)

(***************************************************************************)
(* TaskManager::fetch: the returned Option and the queue afterwards.       *)
(***************************************************************************)
Fetch(q, st) ==
    IF q = << >>
    THEN [ret |-> None, queue |-> q]
    ELSE [ret |-> Some(q[FetchIndex(q, st)]),
          queue |-> RemoveAt(q, FetchIndex(q, st))]

(***************************************************************************)
(* TaskManager::add: push_back.                                            *)
(***************************************************************************)
Add(q, t) == Append(q, t)

(***************************************************************************)
(* The stride a dispatch adds: 32768 / priority (integer division).        *)
(***************************************************************************)
PassUndivided(p) == BIG_STRIDE

Pass(p) == BIG_STRIDE \div p

InitSched ==
    /\ nthreads \in 0 .. MaxThreads
    /\ ready_queue = [h \in Harts |->
                        IF h = 0 THEN [i \in 1 .. nthreads |-> i] ELSE << >>]
    /\ current = [h \in Harts |-> None]
    /\ stride \in [Threads -> StrideChoices]
    /\ \A t \in Threads : t > nthreads => stride[t] = 0
    /\ priority \in [Threads -> PriorityChoices]
    /\ \A t \in Threads : t > nthreads => priority[t] = 2
    /\ stride0 = stride
    /\ fetched = [pre |-> << >>, ret |-> None, post |-> << >>, st |-> stride,
                  n |-> 0]
    /\ iter = 0
    /\ dispatched = {}
    /\ pid2pcb = {}
    /\ SmpAtRest
    /\ SysAtRest
    /\ SyncAtRest

(***************************************************************************)
(* One iteration of the loop of run_tasks on hart h that finds a thread:   *)
(* fetch_task, stride += 32768 / priority, processor.current = Some(task), *)
(* __switch.                                                               *)
(***************************************************************************)
RunTasksDispatch(h) ==
    /\ current[h] = None
    /\ iter < MaxIter
    /\ ready_queue[h] # << >>
    /\ LET f == Fetch(ready_queue[h], stride)
           t == f.ret[1]
       IN /\ ready_queue' = [ready_queue EXCEPT ![h] = f.queue]
          /\ stride' = [stride EXCEPT ![t] = @ + Pass(priority[t])]
          /\ current' = [current EXCEPT ![h] = Some(t)]
          /\ fetched' = [pre |-> ready_queue[h], ret |-> f.ret,
                         post |-> f.queue, st |-> stride, n |-> 1]
          /\ dispatched' = dispatched \cup {t}
    /\ iter' = iter + 1
    /\ UNCHANGED << priority, stride0, nthreads, smpVars, syncVars, sysVars >>

(***************************************************************************)
(* One iteration of the loop of run_tasks on an empty queue: fetch_task    *)
(* returns None, the else branch only logs.                                *)
(***************************************************************************)
RunTasksIdle(h) ==
    /\ current[h] = None
    /\ ready_queue[h] = << >>
    /\ LET f == Fetch(ready_queue[h], stride)
       IN /\ fetched' = [pre |-> ready_queue[h], ret |-> f.ret,
                         post |-> f.queue, st |-> stride, n |-> 1]
          /\ ready_queue' = [ready_queue EXCEPT ![h] = f.queue]
    /\ UNCHANGED << current, stride, priority, iter, dispatched, stride0,
                    nthreads, smpVars, syncVars, sysVars >>

(***************************************************************************)
(* The thread running on hart h yields: it leaves Processor.current and is *)
(* pushed to the back of the ready queue it came from.                     *)
(***************************************************************************)
Yield(h) ==
    /\ current[h] # None
    /\ ready_queue' = [ready_queue EXCEPT ![h] = Add(@, current[h][1])]
    /\ current' = [current EXCEPT ![h] = None]
    /\ UNCHANGED << stride, priority, fetched, iter, dispatched, stride0,
                    nthreads, smpVars, syncVars, sysVars >>

NextSched ==
    \E h \in Harts : RunTasksDispatch(h) \/ RunTasksIdle(h) \/ Yield(h)

SpecSched == InitSched /\ [][NextSched]_vars

(***************************************************************************)
(* SMPSafeCell.                                                            *)
(***************************************************************************)

\* A compare-exchange that stores without comparing.
CompareExchangeStore(flag, cur, new) == [ok |-> TRUE, val |-> new]

\* A compare-exchange whose expected value is the new value.
CompareExchangeNever(flag, cur, new) ==
    IF flag = new THEN [ok |-> TRUE, val |-> new]
                  ELSE [ok |-> FALSE, val |-> flag]

(***************************************************************************)
(* AtomicBool::compare_exchange(current, new): Ok and the flag set to new  *)
(* when the flag equals current, Err and the flag left alone otherwise.    *)
(***************************************************************************)
CompareExchange(flag, cur, new) ==
    IF flag = cur THEN [ok |-> TRUE, val |-> new]
                  ELSE [ok |-> FALSE, val |-> flag]

(***************************************************************************)
(* Where a hart stands inside exclusive_access, the cell it asks for, and  *)
(* where it goes on once exclusive_access has returned the guard.          *)
(***************************************************************************)
LockPcs == { "add_scan", "add_push", "fetch_lock", "p2p_lock", "ins_lock",
             "rem_lock", "reenter" }

TargetCell(h) ==
    CASE pc[h] = "add_scan"   -> loc[h].i
      [] pc[h] = "add_push"   -> loc[h].min_hart_id
      [] pc[h] = "fetch_lock" -> h
      [] pc[h] = "reenter"    -> CHOOSE c \in Cells : c \in guards[h]
      [] OTHER                -> PidCell

AfterLock(p) ==
    CASE p = "add_scan"   -> "add_len"
      [] p = "add_push"   -> "add_do"
      [] p = "fetch_lock" -> "fetch_do"
      [] p = "p2p_lock"   -> "p2p_let"
      [] p = "ins_lock"   -> "ins_do"
      [] p = "rem_lock"   -> "rem_let"
      [] OTHER            -> "reentered"

(***************************************************************************)
(* SMPSafeCell::exclusive_access, one turn of its while loop on hart h:    *)
(* the compare-exchange of the flag from false to true either succeeds,    *)
(* and the guard is returned, or fails, and the loop goes round.           *)
(***************************************************************************)
ExclusiveAccess(h) ==
    /\ ~panicked
    /\ pc[h] \in LockPcs
    /\ LET c == TargetCell(h)
           r == CompareExchange(lock[c], FALSE, TRUE)
       IN /\ lock' = [lock EXCEPT ![c] = r.val]
          /\ IF r.ok
             THEN /\ guards' = [guards EXCEPT ![h] = @ \cup {c}]
                  /\ pc' = [pc EXCEPT ![h] = AfterLock(pc[h])]
                  /\ spins' = [spins EXCEPT ![h] = FALSE]
             ELSE /\ spins' = [spins EXCEPT ![h] = ~@]
                  /\ UNCHANGED << guards, pc >>
    /\ UNCHANGED << sysVars, syncVars, schedVars, borrows, pid2pcb, loc, panicked >>

(***************************************************************************)
(* Drop for SMPSafeCellGuard: the flag is stored false.                    *)
(***************************************************************************)
LockAfterDrop(c) == [lock EXCEPT ![c] = FALSE]
GuardsAfterDrop(h, c) == [guards EXCEPT ![h] = @ \ {c}]

(***************************************************************************)
(* RefCell: borrow / borrow_mut panic when a RefMut of the cell is live.   *)
(* Every borrow of the model that outlives a statement is a RefMut.        *)
(***************************************************************************)
Borrowed(c) == \E g \in Harts : c \in borrows[g]

(***************************************************************************)
(* A hart calls exclusive_access on a cell whose guard it holds.           *)
(***************************************************************************)
Reenter(h) ==
    /\ ~panicked
    /\ pc[h] \notin LockPcs
    /\ guards[h] # {}
    /\ pc' = [pc EXCEPT ![h] = "reenter"]
    /\ UNCHANGED << sysVars, syncVars, schedVars, lock, guards, borrows, pid2pcb, loc, spins,
                    panicked >>

(***************************************************************************)
(* add_task.                                                               *)
(***************************************************************************)
QueuedSomewhere(t) ==
    \E h \in Harts : \E i \in 1 .. Len(ready_queue[h]) : ready_queue[h][i] = t

InFlight(t) == \E h \in Harts : loc[h].task = Some(t)

\* A scan that also takes a queue of equal length.
ScanStepLe(l, hart_id, current_len) ==
    IF current_len <= l.min_length
    THEN [l EXCEPT !.min_hart_id = hart_id, !.min_length = current_len]
    ELSE l

(***************************************************************************)
(* The body of the for loop of add_task, lines 82-85.                      *)
(***************************************************************************)
ScanStep(l, hart_id, current_len) ==
    IF current_len < l.min_length
    THEN [l EXCEPT !.min_hart_id = hart_id, !.min_length = current_len]
    ELSE l

\* add_task(t) is called on hart h: lines 78-79.
AddTaskCall(h, t) ==
    /\ ~panicked
    /\ pc[h] = "idle"
    /\ ~QueuedSomewhere(t)
    /\ ~InFlight(t)
    /\ pc' = [pc EXCEPT ![h] = "add_scan"]
    /\ loc' = [loc EXCEPT ![h] = [NoLocals EXCEPT !.task = Some(t),
                                                   !.min_length = I32_MAX]]
    /\ UNCHANGED << sysVars, syncVars, schedVars, lock, guards, borrows, pid2pcb, spins, panicked >>

\* Line 81 under the guard of TASK_MANAGER[i], and lines 82-85 after the
\* guard was dropped at the end of the statement.
AddTaskLen(h) ==
    /\ ~panicked
    /\ pc[h] = "add_len"
    /\ LET i == loc[h].i
           current_len == Len(ready_queue[i])
           l == ScanStep(loc[h], i, current_len)
       IN /\ loc' = [loc EXCEPT ![h] = [l EXCEPT !.i = i + 1,
                                                 !.seen = Append(@, current_len)]]
          /\ lock' = LockAfterDrop(i)
          /\ guards' = GuardsAfterDrop(h, i)
          /\ pc' = [pc EXCEPT ![h] = IF i + 1 = NHart THEN "add_push"
                                                      ELSE "add_scan"]
    /\ UNCHANGED << sysVars, syncVars, schedVars, borrows, pid2pcb, spins, panicked >>

\* Line 87 under the guard of TASK_MANAGER[min_hart_id]: push_back, then
\* the guard is dropped.
AddTaskPush(h) ==
    /\ ~panicked
    /\ pc[h] = "add_do"
    /\ LET c == loc[h].min_hart_id
           q == [ready_queue EXCEPT ![c] = Add(@, loc[h].task[1])]
       IN /\ ready_queue' = q
          /\ loc' = [loc EXCEPT ![h].pre = ready_queue, ![h].post = q]
          /\ lock' = LockAfterDrop(c)
          /\ guards' = GuardsAfterDrop(h, c)
    /\ pc' = [pc EXCEPT ![h] = "add_ret"]
    /\ UNCHANGED << sysVars, syncVars, current, stride, priority, fetched, iter, dispatched,
                    stride0, nthreads, borrows, pid2pcb, spins, panicked >>

\* add_task returns.
AddTaskReturn(h) ==
    /\ ~panicked
    /\ pc[h] = "add_ret"
    /\ pc' = [pc EXCEPT ![h] = "idle"]
    /\ loc' = [loc EXCEPT ![h] = NoLocals]
    /\ UNCHANGED << sysVars, syncVars, schedVars, lock, guards, borrows, pid2pcb, spins, panicked >>

(***************************************************************************)
(* fetch_task on hart h: TaskManager::fetch under the guard of             *)
(* TASK_MANAGER[h].                                                        *)
(***************************************************************************)
FetchTaskCall(h) ==
    /\ ~panicked
    /\ pc[h] = "idle"
    /\ pc' = [pc EXCEPT ![h] = "fetch_lock"]
    /\ UNCHANGED << sysVars, syncVars, schedVars, lock, guards, borrows, pid2pcb, loc, spins,
                    panicked >>

FetchTaskDo(h) ==
    /\ ~panicked
    /\ pc[h] = "fetch_do"
    /\ ready_queue' = [ready_queue EXCEPT ![h] = Fetch(@, stride).queue]
    /\ lock' = LockAfterDrop(h)
    /\ guards' = GuardsAfterDrop(h, h)
    /\ pc' = [pc EXCEPT ![h] = "idle"]
    /\ UNCHANGED << sysVars, syncVars, current, stride, priority, fetched, iter, dispatched,
                    stride0, nthreads, borrows, pid2pcb, loc, spins, panicked >>

(***************************************************************************)
(* pid2process(pid).                                                       *)
(***************************************************************************)
Pid2ProcessCall(h, pid) ==
    /\ ~panicked
    /\ pc[h] = "idle"
    /\ pc' = [pc EXCEPT ![h] = "p2p_lock"]
    /\ loc' = [loc EXCEPT ![h] = [NoLocals EXCEPT !.pid = Some(pid)]]
    /\ UNCHANGED << sysVars, syncVars, schedVars, lock, guards, borrows, pid2pcb, spins, panicked >>

\* Line 125: get_mut() borrows the map; the guard is a temporary of the let
\* statement and is dropped at its end, the RefMut lives on in `map`.
Pid2ProcessLet(h) ==
    /\ ~panicked
    /\ pc[h] = "p2p_let"
    /\ IF Borrowed(PidCell)
       THEN /\ panicked' = TRUE
            /\ UNCHANGED << lock, guards, borrows, pc >>
       ELSE /\ borrows' = [borrows EXCEPT ![h] = @ \cup {PidCell}]
            /\ lock' = LockAfterDrop(PidCell)
            /\ guards' = GuardsAfterDrop(h, PidCell)
            /\ pc' = [pc EXCEPT ![h] = "p2p_get"]
            /\ UNCHANGED panicked
    /\ UNCHANGED << sysVars, syncVars, schedVars, pid2pcb, loc, spins >>

\* Line 126: the map is read through `map`, which is dropped on return.
Pid2ProcessGet(h) ==
    /\ ~panicked
    /\ pc[h] = "p2p_get"
    /\ borrows' = [borrows EXCEPT ![h] = @ \ {PidCell}]
    /\ pc' = [pc EXCEPT ![h] = "idle"]
    /\ loc' = [loc EXCEPT ![h] = NoLocals]
    /\ UNCHANGED << sysVars, syncVars, schedVars, lock, guards, pid2pcb, spins, panicked >>

(***************************************************************************)
(* insert_into_pid2process(pid, process): one statement, the RefMut and    *)
(* the guard are both dropped at its end.                                  *)
(***************************************************************************)
PidInFlight(pid) ==
    \E h \in Harts :
        loc[h].pid = Some(pid) /\ pc[h] \in {"ins_lock", "ins_do", "rem_lock",
                                             "rem_let", "rem_do"}

InsertCall(h, pid) ==
    /\ ~panicked
    /\ pc[h] = "idle"
    /\ pid \notin pid2pcb
    /\ ~PidInFlight(pid)
    /\ pc' = [pc EXCEPT ![h] = "ins_lock"]
    /\ loc' = [loc EXCEPT ![h] = [NoLocals EXCEPT !.pid = Some(pid)]]
    /\ UNCHANGED << sysVars, syncVars, schedVars, lock, guards, borrows, pid2pcb, spins, panicked >>

InsertDo(h) ==
    /\ ~panicked
    /\ pc[h] = "ins_do"
    /\ IF Borrowed(PidCell)
       THEN /\ panicked' = TRUE
            /\ UNCHANGED << lock, guards, pid2pcb, pc, loc >>
       ELSE /\ pid2pcb' = pid2pcb \cup {loc[h].pid[1]}
            /\ lock' = LockAfterDrop(PidCell)
            /\ guards' = GuardsAfterDrop(h, PidCell)
            /\ pc' = [pc EXCEPT ![h] = "idle"]
            /\ loc' = [loc EXCEPT ![h] = NoLocals]
            /\ UNCHANGED panicked
    /\ UNCHANGED << sysVars, syncVars, schedVars, borrows, spins >>

(***************************************************************************)
(* remove_from_pid2process(pid).                                           *)
(***************************************************************************)
RemoveCall(h, pid) ==
    /\ ~panicked
    /\ pc[h] = "idle"
    /\ pid \in pid2pcb
    /\ ~PidInFlight(pid)
    /\ pc' = [pc EXCEPT ![h] = "rem_lock"]
    /\ loc' = [loc EXCEPT ![h] = [NoLocals EXCEPT !.pid = Some(pid)]]
    /\ UNCHANGED << sysVars, syncVars, schedVars, lock, guards, borrows, pid2pcb, spins, panicked >>

\* Line 136: as line 125, the guard is dropped at the end of the let.
RemoveLet(h) ==
    /\ ~panicked
    /\ pc[h] = "rem_let"
    /\ IF Borrowed(PidCell)
       THEN /\ panicked' = TRUE
            /\ UNCHANGED << lock, guards, borrows, pc >>
       ELSE /\ borrows' = [borrows EXCEPT ![h] = @ \cup {PidCell}]
            /\ lock' = LockAfterDrop(PidCell)
            /\ guards' = GuardsAfterDrop(h, PidCell)
            /\ pc' = [pc EXCEPT ![h] = "rem_do"]
            /\ UNCHANGED panicked
    /\ UNCHANGED << sysVars, syncVars, schedVars, pid2pcb, loc, spins >>

\* Lines 137-139: map.remove, panic when the pid is absent; `map` is
\* dropped on return.
RemoveDo(h) ==
    /\ ~panicked
    /\ pc[h] = "rem_do"
    /\ IF loc[h].pid[1] \notin pid2pcb
       THEN /\ panicked' = TRUE
            /\ UNCHANGED << borrows, pid2pcb, pc, loc >>
       ELSE /\ pid2pcb' = pid2pcb \ {loc[h].pid[1]}
            /\ borrows' = [borrows EXCEPT ![h] = @ \ {PidCell}]
            /\ pc' = [pc EXCEPT ![h] = "idle"]
            /\ loc' = [loc EXCEPT ![h] = NoLocals]
            /\ UNCHANGED panicked
    /\ UNCHANGED << sysVars, syncVars, schedVars, lock, guards, spins >>

(***************************************************************************)
(* The task manager and the PID map under calls from every hart.           *)
(***************************************************************************)
SchedAtRest ==
    /\ nthreads = 0
    /\ ready_queue = [h \in Harts |-> << >>]
    /\ current = [h \in Harts |-> None]
    /\ stride = [t \in Threads |-> IF t = 1 THEN BIG_STRIDE \div 2 ELSE 0]
    /\ priority = [t \in Threads |-> 2]
    /\ stride0 = stride
    /\ fetched = [pre |-> << >>, ret |-> None, post |-> << >>, st |-> stride,
                  n |-> 0]
    /\ iter = 0
    /\ dispatched = {}

Init ==
    /\ SchedAtRest
    /\ pid2pcb = {}
    /\ SmpAtRest
    /\ SysAtRest
    /\ SyncAtRest

HartNext(h) ==
    \/ ExclusiveAccess(h)
    \/ Reenter(h)
    \/ \E t \in Tasks : AddTaskCall(h, t)
    \/ AddTaskLen(h)
    \/ AddTaskPush(h)
    \/ AddTaskReturn(h)
    \/ FetchTaskCall(h)
    \/ FetchTaskDo(h)
    \/ \E pid \in Pids : Pid2ProcessCall(h, pid)
    \/ Pid2ProcessLet(h)
    \/ Pid2ProcessGet(h)
    \/ \E pid \in Pids : InsertCall(h, pid)
    \/ InsertDo(h)
    \/ \E pid \in Pids : RemoveCall(h, pid)
    \/ RemoveLet(h)
    \/ RemoveDo(h)

Next == \E h \in Harts : HartNext(h)

Spec == Init /\ [][Next]_vars

(***************************************************************************)
(* The same under weak fairness of the steps of every hart: a hart never   *)
(* stops executing while a step of it is possible.                         *)
(***************************************************************************)
SpecFair == Spec /\ \A h \in Harts : WF_vars(HartNext(h))

(***************************************************************************)
(* The sync syscalls of one process and their deadlock detection.          *)
(*                                                                         *)
(* A usize is modelled by an integer near 0: k >= 0 stands for k and       *)
(* k < 0 for 2^64 + k, the value a wrapping subtraction below 0 leaves.    *)
(* Sums and differences of the small counts of the model are then the      *)
(* wrapping sums and differences, and only the comparison needs care.      *)
(***************************************************************************)
UGt(a, b) == IF (a < 0) = (b < 0) THEN a > b ELSE a < 0

(***************************************************************************)
(* The inner for loop over the resources of one task: cant_finish is set   *)
(* when some need exceeds work.                                            *)
(***************************************************************************)
CantFinish(need_row, work) ==
    \E index \in DOMAIN work : UGt(need_row[index], work[index])

(***************************************************************************)
(* One pass of the for loop over task_index, from task_index on, in index  *)
(* order: a task that is not finished and can finish is marked finished,   *)
(* its allocated row is added to work at once, and updateable is set.      *)
(***************************************************************************)
RECURSIVE BankerPass(_, _, _, _)
BankerPass(need, allocated, b, task_index) ==
    IF task_index \notin DOMAIN need
    THEN b
    ELSE LET can == /\ ~b.finished[task_index]
                    /\ ~CantFinish(need[task_index], b.work)
             b2 == IF can
                   THEN [finished |-> [b.finished EXCEPT ![task_index] = TRUE],
                         work |-> [index \in DOMAIN b.work |->
                                     b.work[index]
                                       + allocated[task_index][index]],
                         updateable |-> TRUE]
                   ELSE b
         IN  BankerPass(need, allocated, b2, task_index + 1)

(***************************************************************************)
(* The outer loop: passes are repeated until one marks nothing.            *)
(***************************************************************************)
RECURSIVE BankerLoop(_, _, _)
BankerLoop(need, allocated, b) ==
    LET p == BankerPass(need, allocated, [b EXCEPT !.updateable = FALSE], 0)
    IN  IF p.updateable THEN BankerLoop(need, allocated, p) ELSE p

IsDeadlockedNever(available, need, allocated) == FALSE

(***************************************************************************)
(* is_deadlocked after the loop: some task is left unfinished.             *)
(***************************************************************************)
IsDeadlocked(available, need, allocated) ==
    LET b == BankerLoop(need, allocated,
                        [finished |-> [t \in DOMAIN need |-> FALSE],
                         work |-> available, updateable |-> FALSE])
    IN  \E t \in DOMAIN need : ~b.finished[t]

DetectsDeadlockUngated(available, need, allocated) ==
    IsDeadlocked(available, need, allocated)

(***************************************************************************)
(* The check runs only if is_detect_deadlock_enable is set.                *)
(***************************************************************************)
DetectsDeadlock(available, need, allocated) ==
    detect /\ IsDeadlocked(available, need, allocated)

RevertNeedSkip(need, tid, id) == need

(***************************************************************************)
(* need[tid][id] -= 1: before the return of -0xDEAD, and after the         *)
(* primitive has been obtained.                                            *)
(***************************************************************************)
RevertNeed(need, tid, id) == [need EXCEPT ![tid][id] = @ - 1]

(***************************************************************************)
(* What a lock or down call finds: the accounting of its kind and the      *)
(* state of the primitives of its kind.                                    *)
(***************************************************************************)
Snapshot(kind) ==
    IF kind = "mutex"
    THEN [detect |-> detect, available |-> mutex_available,
          need |-> mutex_need, allocated |-> mutex_allocated,
          prim |-> mutex_owner, wait |-> mutex_wait]
    ELSE [detect |-> detect, available |-> semaphore_available,
          need |-> semaphore_need, allocated |-> semaphore_allocated,
          prim |-> sem_count, wait |-> sem_wait]

Called(kind, tid, id, ret) ==
    [kind |-> kind, tid |-> tid, id |-> id, ret |-> ret,
     pre |-> Snapshot(kind)]

mutexVars == << mutex_available, mutex_need, mutex_allocated, mutex_owner,
                mutex_wait >>

semVars == << semaphore_available, semaphore_need, semaphore_allocated,
              sem_count, sem_wait >>

smpRest == << lock, guards, borrows, pid2pcb, pc, loc, spins >>

(***************************************************************************)
(* A subtraction below 0 in a build with overflow checks: the kernel       *)
(* panics.  In a build without, the value wraps and the call goes on.      *)
(***************************************************************************)
Panic ==
    /\ panicked' = TRUE
    /\ last' = NoCall
    /\ UNCHANGED << overflow_checks, detect, mutexVars, semVars, tstate >>

(***************************************************************************)
(* sys_enable_deadlock_detect(enabled).                                    *)
(***************************************************************************)
SysEnableDeadlockDetect(t, enabled) ==
    /\ ~panicked
    /\ tstate[t] = InUser
    /\ detect' = IF enabled = 0 THEN FALSE
                 ELSE IF enabled = 1 THEN TRUE ELSE detect
    /\ last' = [kind |-> "enable_deadlock_detect", tid |-> t, id |-> enabled,
                ret |-> Some(IF enabled \in {0, 1} THEN 0 ELSE -1)]
    /\ UNCHANGED << overflow_checks, mutexVars, semVars, tstate, panicked,
                    cv_wait, res_count, schedVars, smpRest, sysVars >>

(***************************************************************************)
(* sys_mutex_lock(mutex_id) by thread t, up to its return or to the point  *)
(* where MutexBlocking::lock blocks the thread.                            *)
(***************************************************************************)
SysMutexLock(t, m) ==
    /\ ~panicked
    /\ tstate[t] = InUser
    /\ LET need1 == [mutex_need EXCEPT ![t][m] = @ + 1]
       IN  IF DetectsDeadlock(mutex_available, need1, mutex_allocated)
           THEN /\ mutex_need' = RevertNeed(need1, t, m)
                /\ last' = Called("mutex", t, m, Some(-DEAD))
                /\ UNCHANGED << mutex_available, mutex_allocated,
                                mutex_owner, mutex_wait, tstate, panicked >>
           ELSE IF mutex_owner[m] # None
           THEN /\ mutex_need' = need1
                /\ mutex_wait' = [mutex_wait EXCEPT ![m] = Append(@, t)]
                /\ tstate' = [tstate EXCEPT ![t] = Blocked("mutex", m)]
                /\ last' = Called("mutex", t, m, None)
                /\ UNCHANGED << mutex_available, mutex_allocated,
                                mutex_owner, panicked >>
           ELSE IF mutex_available[m] = 0 /\ overflow_checks
           THEN /\ panicked' = TRUE
                /\ last' = NoCall
                /\ UNCHANGED << mutexVars, tstate >>
           ELSE /\ mutex_owner' = [mutex_owner EXCEPT ![m] = Some(t)]
                /\ mutex_need' = RevertNeed(need1, t, m)
                /\ mutex_available' = [mutex_available EXCEPT ![m] = @ - 1]
                /\ mutex_allocated' =
                       [mutex_allocated EXCEPT ![t][m] = @ + 1]
                /\ last' = Called("mutex", t, m, Some(0))
                /\ UNCHANGED << mutex_wait, tstate, panicked >>
    /\ UNCHANGED << overflow_checks, detect, semVars, cv_wait, res_count, schedVars,
                    smpRest, sysVars >>

(***************************************************************************)
(* The rest of sys_mutex_lock, lines 138-143, once the thread has been     *)
(* handed the mutex and runs again.                                        *)
(***************************************************************************)
SysMutexLockResume(t) ==
    /\ ~panicked
    /\ tstate[t].st = "woken"
    /\ tstate[t].kind = "mutex"
    /\ LET m == tstate[t].id
       IN  IF mutex_available[m] = 0 /\ overflow_checks
           THEN Panic
           ELSE /\ mutex_need' = RevertNeed(mutex_need, t, m)
                /\ mutex_available' = [mutex_available EXCEPT ![m] = @ - 1]
                /\ mutex_allocated' =
                       [mutex_allocated EXCEPT ![t][m] = @ + 1]
                /\ tstate' = [tstate EXCEPT ![t] = InUser]
                /\ last' = NoCall
                /\ UNCHANGED << overflow_checks, detect, mutex_owner,
                                mutex_wait, semVars, panicked >>
    /\ UNCHANGED << cv_wait, res_count, schedVars, smpRest, sysVars >>

(***************************************************************************)
(* sys_mutex_unlock(mutex_id) by the thread that holds the mutex.          *)
(* MutexBlocking::unlock hands the mutex to the first waiter and wakes     *)
(* it, or unlocks.                                                         *)
(***************************************************************************)
SysMutexUnlock(t, m) ==
    /\ ~panicked
    /\ tstate[t] = InUser
    /\ mutex_owner[m] = Some(t)
    /\ IF mutex_allocated[t][m] = 0 /\ overflow_checks
       THEN Panic
       ELSE /\ mutex_allocated' = [mutex_allocated EXCEPT ![t][m] = @ - 1]
            /\ mutex_available' = [mutex_available EXCEPT ![m] = @ + 1]
            /\ IF mutex_wait[m] # << >>
               THEN /\ mutex_wait' = [mutex_wait EXCEPT ![m] = Tail(@)]
                    /\ mutex_owner' =
                           [mutex_owner EXCEPT ![m] = Some(Head(mutex_wait[m]))]
                    /\ tstate' = [tstate EXCEPT
                                    ![Head(mutex_wait[m])] = WokenAs(@)]
               ELSE /\ mutex_owner' = [mutex_owner EXCEPT ![m] = None]
                    /\ UNCHANGED << mutex_wait, tstate >>
            /\ last' = NoCall
            /\ UNCHANGED << overflow_checks, detect, mutex_need, semVars,
                            panicked >>
    /\ UNCHANGED << cv_wait, res_count, schedVars, smpRest, sysVars >>

(***************************************************************************)
(* sys_semaphore_up(sem_id) by thread t, whether or not t has downed the   *)
(* semaphore before.  Semaphore::up wakes the first waiter or increments   *)
(* the count.                                                              *)
(***************************************************************************)
SysSemaphoreUp(t, x) ==
    /\ ~panicked
    /\ tstate[t] = InUser
    /\ IF semaphore_allocated[t][x] = 0 /\ overflow_checks
       THEN Panic
       ELSE /\ semaphore_allocated' =
                   [semaphore_allocated EXCEPT ![t][x] = @ - 1]
            /\ semaphore_available' =
                   [semaphore_available EXCEPT ![x] = @ + 1]
            /\ IF sem_wait[x] # << >>
               THEN /\ sem_wait' = [sem_wait EXCEPT ![x] = Tail(@)]
                    /\ tstate' = [tstate EXCEPT
                                    ![Head(sem_wait[x])] =
                                        Woken("semaphore", x)]
                    /\ UNCHANGED sem_count
               ELSE /\ sem_count' = [sem_count EXCEPT ![x] = @ + 1]
                    /\ UNCHANGED << sem_wait, tstate >>
            /\ last' = NoCall
            /\ UNCHANGED << overflow_checks, detect, semaphore_need,
                            mutexVars, panicked >>
    /\ UNCHANGED << cv_wait, res_count, schedVars, smpRest, sysVars >>

(***************************************************************************)
(* sys_semaphore_down(sem_id) by thread t, up to its return or to the      *)
(* point where Semaphore::down blocks the thread.                          *)
(***************************************************************************)
SysSemaphoreDown(t, x) ==
    /\ ~panicked
    /\ tstate[t] = InUser
    /\ LET need1 == [semaphore_need EXCEPT ![t][x] = @ + 1]
       IN  IF DetectsDeadlock(semaphore_available, need1,
                              semaphore_allocated)
           THEN /\ semaphore_need' = RevertNeed(need1, t, x)
                /\ last' = Called("semaphore", t, x, Some(-DEAD))
                /\ UNCHANGED << semaphore_available, semaphore_allocated,
                                sem_count, sem_wait, tstate, panicked >>
           ELSE IF sem_count[x] = 0
           THEN /\ semaphore_need' = need1
                /\ sem_wait' = [sem_wait EXCEPT ![x] = Append(@, t)]
                /\ tstate' = [tstate EXCEPT ![t] = Blocked("semaphore", x)]
                /\ last' = Called("semaphore", t, x, None)
                /\ UNCHANGED << semaphore_available, semaphore_allocated,
                                sem_count, panicked >>
           ELSE IF semaphore_available[x] = 0 /\ overflow_checks
           THEN /\ panicked' = TRUE
                /\ last' = NoCall
                /\ UNCHANGED << semVars, tstate >>
           ELSE /\ sem_count' = [sem_count EXCEPT ![x] = @ - 1]
                /\ semaphore_need' = RevertNeed(need1, t, x)
                /\ semaphore_available' =
                       [semaphore_available EXCEPT ![x] = @ - 1]
                /\ semaphore_allocated' =
                       [semaphore_allocated EXCEPT ![t][x] = @ + 1]
                /\ last' = Called("semaphore", t, x, Some(0))
                /\ UNCHANGED << sem_wait, tstate, panicked >>
    /\ UNCHANGED << overflow_checks, detect, mutexVars, cv_wait, res_count, schedVars,
                    smpRest, sysVars >>

(***************************************************************************)
(* The rest of sys_semaphore_down, lines 302-306, once the thread has been *)
(* woken by an up and runs again.                                          *)
(***************************************************************************)
SysSemaphoreDownResume(t) ==
    /\ ~panicked
    /\ tstate[t].st = "woken"
    /\ tstate[t].kind = "semaphore"
    /\ LET x == tstate[t].id
       IN  IF semaphore_available[x] = 0 /\ overflow_checks
           THEN Panic
           ELSE /\ semaphore_need' = RevertNeed(semaphore_need, t, x)
                /\ semaphore_available' =
                       [semaphore_available EXCEPT ![x] = @ - 1]
                /\ semaphore_allocated' =
                       [semaphore_allocated EXCEPT ![t][x] = @ + 1]
                /\ tstate' = [tstate EXCEPT ![t] = InUser]
                /\ last' = NoCall
                /\ UNCHANGED << overflow_checks, detect, sem_count, sem_wait,
                                mutexVars, panicked >>
    /\ UNCHANGED << cv_wait, res_count, schedVars, smpRest, sysVars >>

(***************************************************************************)
(* sys_condvar_signal(condvar_id): Condvar::signal wakes the first waiter, *)
(* if there is one.                                                        *)
(***************************************************************************)
SysCondvarSignal(t, c) ==
    /\ ~panicked
    /\ tstate[t] = InUser
    /\ IF cv_wait[c] # << >>
       THEN /\ cv_wait' = [cv_wait EXCEPT ![c] = Tail(@)]
            /\ tstate' = [tstate EXCEPT ![Head(cv_wait[c])] = WokenAs(@)]
       ELSE UNCHANGED << cv_wait, tstate >>
    /\ last' = NoCall
    /\ UNCHANGED << overflow_checks, detect, mutexVars, semVars, panicked,
                    res_count, schedVars, smpRest, sysVars >>

(***************************************************************************)
(* sys_condvar_wait(condvar_id, mutex_id) by the thread that holds the     *)
(* mutex, up to the point where Condvar::wait blocks it: the mutex is      *)
(* unlocked (handed to its first waiter, if any) and the thread queued on  *)
(* the condvar.  The accounting of the mutex is not touched.               *)
(***************************************************************************)
SysCondvarWait(t, c, m) ==
    /\ ~panicked
    /\ tstate[t] = InUser
    /\ mutex_owner[m] = Some(t)
    /\ cv_wait' = [cv_wait EXCEPT ![c] = Append(@, t)]
    /\ IF mutex_wait[m] # << >>
       THEN /\ mutex_wait' = [mutex_wait EXCEPT ![m] = Tail(@)]
            /\ mutex_owner' =
                   [mutex_owner EXCEPT ![m] = Some(Head(mutex_wait[m]))]
            /\ tstate' = [tstate EXCEPT
                            ![t] = BlockedInWait(c, m),
                            ![Head(mutex_wait[m])] = WokenAs(@)]
       ELSE /\ mutex_owner' = [mutex_owner EXCEPT ![m] = None]
            /\ tstate' = [tstate EXCEPT ![t] = BlockedInWait(c, m)]
            /\ UNCHANGED mutex_wait
    /\ last' = NoCall
    /\ UNCHANGED << overflow_checks, detect, mutex_available, mutex_need,
                    mutex_allocated, semVars, panicked, res_count, schedVars, smpRest, sysVars >>

(***************************************************************************)
(* The signalled thread runs again inside Condvar::wait: mutex.lock()      *)
(* takes the mutex, and sys_condvar_wait returns 0, or blocks the thread   *)
(* on the mutex.                                                           *)
(***************************************************************************)
SysCondvarWaitRelock(t) ==
    /\ ~panicked
    /\ tstate[t].st = "woken"
    /\ tstate[t].kind = "condvar"
    /\ LET m == tstate[t].mutex
       IN  IF mutex_owner[m] = None
           THEN /\ mutex_owner' = [mutex_owner EXCEPT ![m] = Some(t)]
                /\ tstate' = [tstate EXCEPT ![t] = InUser]
                /\ UNCHANGED mutex_wait
           ELSE /\ mutex_wait' = [mutex_wait EXCEPT ![m] = Append(@, t)]
                /\ tstate' = [tstate EXCEPT ![t] = Blocked("relock", m)]
                /\ UNCHANGED mutex_owner
    /\ last' = NoCall
    /\ UNCHANGED << overflow_checks, detect, mutex_available, mutex_need,
                    mutex_allocated, semVars, cv_wait, panicked, res_count, schedVars,
                    smpRest, sysVars >>

(***************************************************************************)
(* The thread has been handed the mutex it blocked on inside               *)
(* Condvar::wait and runs again: sys_condvar_wait returns 0.               *)
(***************************************************************************)
SysCondvarWaitReturn(t) ==
    /\ ~panicked
    /\ tstate[t].st = "woken"
    /\ tstate[t].kind = "relock"
    /\ tstate' = [tstate EXCEPT ![t] = InUser]
    /\ last' = NoCall
    /\ UNCHANGED << overflow_checks, detect, mutexVars, semVars, cv_wait,
                    panicked, res_count, schedVars, smpRest, sysVars >>

(***************************************************************************)
(* The threads of the unscripted processes stop calling up and down on a   *)
(* semaphore when its counts have moved MaxCount away from 0.              *)
(***************************************************************************)
UpWithinBounds(t, x) ==
    /\ semaphore_available[x] < MaxCount
    /\ semaphore_allocated[t][x] > -MaxCount

DownWithinBounds(t, x) == semaphore_allocated[t][x] < MaxCount

(***************************************************************************)
(* A process with NTid threads, NMutex blocking mutexes and NSem           *)
(* semaphores, each made by sys_semaphore_create(res_count), and detection *)
(* off; the kernel is built with or without overflow checks.               *)
(***************************************************************************)
InitSync ==
    /\ SchedAtRest
    /\ pid2pcb = {}
    /\ SmpAtRest
    /\ SysAtRest
    /\ overflow_checks \in BOOLEAN
    /\ detect = FALSE
    /\ mutex_available = [m \in Mutexes |-> 1]
    /\ mutex_need = [t \in Tids |-> [m \in Mutexes |-> 0]]
    /\ mutex_allocated = [t \in Tids |-> [m \in Mutexes |-> 0]]
    /\ res_count \in [Sems -> 0 .. MaxCount]
    /\ semaphore_available = res_count
    /\ sem_count = res_count
    /\ semaphore_need = [t \in Tids |-> [x \in Sems |-> 0]]
    /\ semaphore_allocated = [t \in Tids |-> [x \in Sems |-> 0]]
    /\ mutex_owner = [m \in Mutexes |-> None]
    /\ mutex_wait = [m \in Mutexes |-> << >>]
    /\ sem_wait = [x \in Sems |-> << >>]
    /\ cv_wait = [c \in Condvars |-> << >>]
    /\ tstate = [t \in Tids |-> InUser]
    /\ last = NoCall

ThreadNext(t) ==
    \/ \E enabled \in 0 .. 2 : SysEnableDeadlockDetect(t, enabled)
    \/ \E m \in Mutexes : SysMutexLock(t, m)
    \/ SysMutexLockResume(t)
    \/ \E m \in Mutexes : SysMutexUnlock(t, m)
    \/ \E x \in Sems : UpWithinBounds(t, x) /\ SysSemaphoreUp(t, x)
    \/ \E x \in Sems : DownWithinBounds(t, x) /\ SysSemaphoreDown(t, x)
    \/ SysSemaphoreDownResume(t)
    \/ \E c \in Condvars : SysCondvarSignal(t, c)
    \/ \E c \in Condvars : \E m \in Mutexes : SysCondvarWait(t, c, m)
    \/ SysCondvarWaitRelock(t)
    \/ SysCondvarWaitReturn(t)

NextSync == \E t \in Tids : ThreadNext(t)

SpecSync == InitSync /\ [][NextSync]_vars

(***************************************************************************)
(* A process of NSemTid threads that use one semaphore, made by            *)
(* sys_semaphore_create(res_count): enough threads for several to be       *)
(* blocked in down while another one ups.                                  *)
(***************************************************************************)
InitSem ==
    /\ SchedAtRest
    /\ pid2pcb = {}
    /\ SmpAtRest
    /\ SysAtRest
    /\ overflow_checks \in BOOLEAN
    /\ detect = FALSE
    /\ mutex_available = [m \in Mutexes |-> 1]
    /\ mutex_need = [t \in SemTids |-> [m \in Mutexes |-> 0]]
    /\ mutex_allocated = [t \in SemTids |-> [m \in Mutexes |-> 0]]
    /\ res_count \in [Sems -> 0 .. 1]
    /\ semaphore_available = res_count
    /\ sem_count = res_count
    /\ semaphore_need = [t \in SemTids |-> [x \in Sems |-> 0]]
    /\ semaphore_allocated = [t \in SemTids |-> [x \in Sems |-> 0]]
    /\ mutex_owner = [m \in Mutexes |-> None]
    /\ mutex_wait = [m \in Mutexes |-> << >>]
    /\ sem_wait = [x \in Sems |-> << >>]
    /\ cv_wait = [c \in Condvars |-> << >>]
    /\ tstate = [t \in SemTids |-> InUser]
    /\ last = NoCall

SemThreadNext(t) ==
    \/ \E enabled \in 0 .. 2 : SysEnableDeadlockDetect(t, enabled)
    \/ \E x \in Sems : UpWithinBounds(t, x) /\ SysSemaphoreUp(t, x)
    \/ \E x \in Sems : DownWithinBounds(t, x) /\ SysSemaphoreDown(t, x)
    \/ SysSemaphoreDownResume(t)

NextSem == \E t \in SemTids : SemThreadNext(t)

SpecSem == InitSem /\ [][NextSem]_vars

(***************************************************************************)
(* A producer and a consumer thread of one process exchange MaxItems       *)
(* items through the semaphore Items, created with 0, and the semaphore    *)
(* Slots, created with SlotCount.  Thread 0 is the main thread, which has  *)
(* made the semaphores and the threads and waits for them.  Detection is   *)
(* off.                                                                    *)
(*                                                                         *)
(* producer: repeat MaxItems times  down(Slots); up(Items)                 *)
(* consumer: repeat MaxItems times  down(Items); up(Slots)                 *)
(*                                                                         *)
(* A down that returns 0 adds 1 to the caller's allocated entry and an up  *)
(* subtracts 1 from it, so these entries tell how many downs and ups a     *)
(* thread has completed, and with that where it stands in its loop.        *)
(***************************************************************************)
Producer == 1
Consumer == 2
Items == 0
Slots == 1
PCTids == { 0, Producer, Consumer }
PCSems == { Items, Slots }

DownsDone(t, x) == semaphore_allocated[t][x]
UpsDone(t, x) == -semaphore_allocated[t][x]

\* Thread t, which downs semaphore d and then ups semaphore u in each turn
\* of its loop, is about to call down, is about to call up, has finished.
AtDown(t, d, u) ==
    /\ tstate[t] = InUser
    /\ DownsDone(t, d) = UpsDone(t, u)
    /\ UpsDone(t, u) < MaxItems

AtUp(t, d, u) ==
    /\ tstate[t] = InUser
    /\ DownsDone(t, d) = UpsDone(t, u) + 1

Finished(t, d, u) ==
    /\ tstate[t] = InUser
    /\ DownsDone(t, d) = MaxItems
    /\ UpsDone(t, u) = MaxItems

InitPC ==
    /\ SchedAtRest
    /\ pid2pcb = {}
    /\ SmpAtRest
    /\ SysAtRest
    /\ overflow_checks \in BOOLEAN
    /\ detect = FALSE
    /\ mutex_available = << >>
    /\ mutex_need = [t \in PCTids |-> << >>]
    /\ mutex_allocated = [t \in PCTids |-> << >>]
    /\ res_count = (Items :> 0) @@ (Slots :> SlotCount)
    /\ semaphore_available = res_count
    /\ sem_count = res_count
    /\ semaphore_need = [t \in PCTids |-> [x \in PCSems |-> 0]]
    /\ semaphore_allocated = [t \in PCTids |-> [x \in PCSems |-> 0]]
    /\ mutex_owner = << >>
    /\ mutex_wait = << >>
    /\ sem_wait = [x \in PCSems |-> << >>]
    /\ cv_wait = << >>
    /\ tstate = [t \in PCTids |-> InUser]
    /\ last = NoCall

ProducerNext ==
    \/ AtDown(Producer, Slots, Items) /\ SysSemaphoreDown(Producer, Slots)
    \/ SysSemaphoreDownResume(Producer)
    \/ AtUp(Producer, Slots, Items) /\ SysSemaphoreUp(Producer, Items)

ConsumerNext ==
    \/ AtDown(Consumer, Items, Slots) /\ SysSemaphoreDown(Consumer, Items)
    \/ SysSemaphoreDownResume(Consumer)
    \/ AtUp(Consumer, Items, Slots) /\ SysSemaphoreUp(Consumer, Slots)

NextPC == ProducerNext \/ ConsumerNext

SpecPC == InitPC /\ [][NextPC]_vars

(***************************************************************************)
(* Each of the two threads keeps running while it has a step to take.      *)
(***************************************************************************)
SpecPCFair == SpecPC /\ WF_vars(ProducerNext) /\ WF_vars(ConsumerNext)

(***************************************************************************)
(* Properties of the task manager and the cells, checked under Spec and    *)
(* SpecFair.                                                               *)
(***************************************************************************)
Lens(qs) == [h \in Harts |-> Len(qs[h])]

\* The queue lengths read by a finished scan, indexed by hart.
SeenLens(h) == [g \in Harts |-> loc[h].seen[g + 1]]

\* The lowest-numbered hart among those of smallest length.
FirstShortest(lens) ==
    CHOOSE c \in Harts :
        /\ \A d \in Harts : lens[c] <= lens[d]
        /\ \A d \in Harts : d < c => lens[d] > lens[c]

\* add_task on hart h appended its task to the tail of queue c alone.
AppendedTo(h, c) ==
    /\ loc[h].post[c] = Append(loc[h].pre[c], loc[h].task[1])
    /\ \A d \in Harts \ {c} : loc[h].post[d] = loc[h].pre[d]

\* C4, as claimed: add_task(t) appends t to the tail of exactly one ready
\* queue, a shortest one among all harts at the moment of the append, also
\* when other harts add or fetch between the length scan and the append.
C4_AppendsToShortestAtAppend ==
    \A h \in Harts : pc[h] = "add_ret" =>
        \E c \in Harts :
            /\ AppendedTo(h, c)
            /\ \A d \in Harts : Len(loc[h].pre[c]) <= Len(loc[h].pre[d])

\* C4, amended: add_task(t) appends t to the tail of exactly one ready
\* queue: the lowest-numbered one among the shortest by the lengths its scan
\* read; that queue is a shortest one at the moment of the append when the
\* lengths are then still the ones the scan read.
C4_AppendsToShortestScanned ==
    \A h \in Harts : pc[h] = "add_ret" =>
        LET c == FirstShortest(SeenLens(h))
        IN /\ AppendedTo(h, c)
           /\ Lens(loc[h].pre) = SeenLens(h) =>
                  \A d \in Harts : Len(loc[h].pre[c]) <= Len(loc[h].pre[d])

\* C4 witness: an add_task has appended after another hart changed a queue
\* between its scan and its append.
C4_Witness ==
    \E h \in Harts :
        /\ pc[h] = "add_ret"
        /\ Lens(loc[h].pre) # SeenLens(h)
        /\ AppendedTo(h, FirstShortest(SeenLens(h)))

GuardHolders(c) == { h \in Harts : c \in guards[h] }

\* C5: for every cell at most one guard exists across all harts, and the
\* flag is true exactly while a guard of the cell exists.
C5_AtMostOneGuard ==
    \A c \in Cells :
        /\ Cardinality(GuardHolders(c)) <= 1
        /\ lock[c] = (GuardHolders(c) # {})

Spinning(h, c) ==
    /\ pc[h] \in LockPcs \ {"reenter"}
    /\ TargetCell(h) = c

\* C5 witness: a hart holds the guard of a cell while another hart spins in
\* exclusive_access on the same cell.
C5_Witness ==
    \E c \in Cells : \E h, g \in Harts :
        /\ h # g
        /\ c \in guards[h]
        /\ Spinning(g, c)

\* C6, as claimed: a hart spinning in exclusive_access eventually obtains
\* the guard, provided every holder eventually drops its guard (the flag is
\* false again and again) and the kernel does not panic.
C6_EverySpinnerAcquires ==
    \A h \in Harts : \A c \in Cells :
        ([]<>(~lock[c]) /\ [](~panicked)) =>
            (Spinning(h, c) ~> (c \in guards[h]))

\* C6, amended: the cell is deadlock-free, not fair: whenever a cell is
\* free while some hart spins on it, some hart obtains its guard (or the
\* kernel panics first).
C6_SomeSpinnerAcquires ==
    \A c \in Cells :
        (~lock[c] /\ \E h \in Harts : Spinning(h, c)) ~> (lock[c] \/ panicked)

\* C6 witness: a cell is free while two harts spin on it.
C6_Witness ==
    \E c \in Cells : \E h, g \in Harts :
        /\ h # g
        /\ ~lock[c]
        /\ Spinning(h, c)
        /\ Spinning(g, c)

\* C7: a call of exclusive_access on a cell whose guard the calling hart
\* holds is detected: the kernel panics, the hart does not spin for ever.
C7_ReentryPanics ==
    \A h \in Harts : (pc[h] = "reenter") ~> panicked

\* C8: a hart borrows the PID map only while it holds the guard of the
\* map's cell, and no two harts borrow the map at the same time.
C8_MapBorrowedUnderGuard ==
    /\ \A h \in Harts : PidCell \in borrows[h] => PidCell \in guards[h]
    /\ Cardinality({ h \in Harts : PidCell \in borrows[h] }) <= 1

(***************************************************************************)
(* Properties of the scheduler, checked under SpecSched.                   *)
(***************************************************************************)
MinStrideOf(q, st) ==
    CHOOSE m \in { st[q[i]] : i \in 1 .. Len(q) } :
        \A j \in 1 .. Len(q) : m <= st[q[j]]

FirstIndexOf(q, st, m) ==
    CHOOSE i \in 1 .. Len(q) :
        /\ st[q[i]] = m
        /\ \A j \in 1 .. i - 1 : st[q[j]] # m

\* C1: fetch on a non-empty queue removes and returns a thread whose stride
\* is at most the stride of every thread of that queue; on an empty queue it
\* returns None and changes nothing.
C1_FetchReturnsMinimum ==
    fetched.n = 1 =>
        IF fetched.pre = << >>
        THEN fetched.ret = None /\ fetched.post = fetched.pre
        ELSE /\ fetched.ret # None
             /\ \E i \in 1 .. Len(fetched.pre) :
                    /\ fetched.pre[i] = fetched.ret[1]
                    /\ fetched.post = RemoveAt(fetched.pre, i)
             /\ \A j \in 1 .. Len(fetched.pre) :
                    fetched.st[fetched.ret[1]] <= fetched.st[fetched.pre[j]]

\* C2: when several queued threads share the smallest stride, fetch returns
\* the one nearest the front, and the threads left keep their order.
C2_TieGoesToFront ==
    (fetched.n = 1 /\ fetched.pre # << >>) =>
        LET m == MinStrideOf(fetched.pre, fetched.st)
            ties == { i \in 1 .. Len(fetched.pre) :
                        fetched.st[fetched.pre[i]] = m }
            first == FirstIndexOf(fetched.pre, fetched.st, m)
        IN Cardinality(ties) >= 2 =>
               /\ fetched.ret = Some(fetched.pre[first])
               /\ fetched.post = RemoveAt(fetched.pre, first)

EqualStart == \A s, t \in 1 .. nthreads : stride0[s] = stride0[t]

LockOrDown == last.kind \in { "mutex", "semaphore" }

(***************************************************************************)
(* The Banker's iteration, free to take the unfinished threads in any      *)
(* order, can mark every thread of the set finished: some unfinished       *)
(* thread's need row is within work, and with its allocated row added to   *)
(* work the rest can be marked.                                            *)
(***************************************************************************)
RECURSIVE CanFinishAll(_, _, _, _)
CanFinishAll(unfinished, work, need, allocated) ==
    \/ unfinished = {}
    \/ \E t \in unfinished :
          /\ ~CantFinish(need[t], work)
          /\ CanFinishAll(unfinished \ {t},
                          [index \in DOMAIN work |->
                             work[index] + allocated[t][index]],
                          need, allocated)

\* C9: a sys_mutex_lock or sys_semaphore_down call returns -0xDEAD exactly
\* when detection is enabled and, with the caller's need entry incremented,
\* the Banker's iteration from work = available cannot mark every thread
\* finished; with detection disabled it never returns -0xDEAD.
C9_DeadExactlyWhenBankerStuck ==
    LockOrDown =>
        LET need1 == [last.pre.need EXCEPT ![last.tid][last.id] = @ + 1]
        IN  (last.ret = Some(-DEAD))
              <=> /\ last.pre.detect
                  /\ ~CanFinishAll(Tids, last.pre.available, need1,
                                   last.pre.allocated)

ReturnedDead == LockOrDown /\ last.ret = Some(-DEAD)

Holds(kind, t, id) ==
    IF kind = "mutex"
    THEN mutex_owner[id] = Some(t)
    ELSE semaphore_allocated[t][id] > 0

HeldBefore ==
    IF last.kind = "mutex"
    THEN last.pre.prim[last.id] = Some(last.tid)
    ELSE last.pre.allocated[last.tid][last.id] > 0

AccountingAsBefore ==
    /\ Snapshot(last.kind).available = last.pre.available
    /\ Snapshot(last.kind).need = last.pre.need
    /\ Snapshot(last.kind).allocated = last.pre.allocated

NotBlockedOn ==
    /\ tstate[last.tid] = InUser
    /\ \A i \in 1 .. Len(Snapshot(last.kind).wait[last.id]) :
          Snapshot(last.kind).wait[last.id][i] # last.tid

\* C10: when sys_mutex_lock or sys_semaphore_down returns -0xDEAD, available,
\* need and allocated equal their values before the call, and the caller is
\* neither blocked on the primitive nor holds it.
C10_DeadLeavesCallerWithout ==
    ReturnedDead =>
        /\ AccountingAsBefore
        /\ NotBlockedOn
        /\ ~Holds(last.kind, last.tid, last.id)

\* C10, amended: when the call returns -0xDEAD, available, need and allocated
\* equal their values before the call, the primitive and its wait queue are
\* as the call found them, the caller is not blocked on it and holds it only
\* if it held it before the call.
C10_DeadLeavesStateAsFound ==
    ReturnedDead =>
        /\ AccountingAsBefore
        /\ NotBlockedOn
        /\ Snapshot(last.kind).prim = last.pre.prim
        /\ Snapshot(last.kind).wait = last.pre.wait
        /\ Holds(last.kind, last.tid, last.id) => HeldBefore

\* A lock call has returned -0xDEAD to a thread that did not hold the mutex,
\* while another thread is blocked.
C10_Witness ==
    /\ ReturnedDead
    /\ last.kind = "mutex"
    /\ ~HeldBefore
    /\ \E t \in Tids : tstate[t].st = "blocked"


(***************************************************************************)
(* Properties of the accounting, checked under SpecSync.                   *)
(***************************************************************************)
RECURSIVE SumOver(_, _)
SumOver(f, S) ==
    IF S = {} THEN 0
    ELSE LET t == CHOOSE u \in S : TRUE IN f[t] + SumOver(f, S \ {t})

\* A usize that a subtraction below 0 has wrapped to 2^64 + k, k < 0.
Wrapped(k) == k < 0

\* available[r] + sum of allocated[t][r] = capacity, as a sum of the usize
\* values: no term is wrapped, and the terms add up to the capacity.
Conserved(available, allocated, r, capacity) ==
    /\ ~Wrapped(available[r])
    /\ \A t \in Tids : ~Wrapped(allocated[t][r])
    /\ available[r] + SumOver([t \in Tids |-> allocated[t][r]], Tids)
         = capacity

\* C11: in every reachable state, for every mutex and every semaphore r,
\* available[r] plus the sum over all threads of allocated[t][r] equals the
\* creation capacity of r: 1 for a mutex, res_count for a semaphore.
C11_AvailablePlusAllocatedIsCapacity ==
    /\ \A m \in Mutexes : Conserved(mutex_available, mutex_allocated, m, 1)
    /\ \A x \in Sems :
          Conserved(semaphore_available, semaphore_allocated, x, res_count[x])

(***************************************************************************)
(* Properties of the mutex calls of two threads, checked under SpecSync.   *)
(***************************************************************************)

\* Before the call recorded in last, thread a held mutex x and was blocked
\* in sys_mutex_lock on mutex y, which thread b held.
HeldAndWaited(a, x, b, y) ==
    /\ a # b
    /\ x # y
    /\ last.pre.prim[x] = Some(a)
    /\ last.pre.prim[y] = Some(b)
    /\ tstate[a] = Blocked("mutex", y)
    /\ \E i \in 1 .. Len(last.pre.wait[y]) : last.pre.wait[y][i] = a

\* The call recorded in last is the later request of a cross pair: thread
\* b, holding y, calls sys_mutex_lock(x) while a holds x and waits for y.
LaterCrossRequest ==
    /\ last.kind = "mutex"
    /\ last.pre.detect
    /\ \E a \in Tids : \E y \in Mutexes :
          HeldAndWaited(a, last.id, last.tid, y)

\* Thread a is blocked in the wait queue of mutex y.
WaitsFor(a, y) ==
    /\ tstate[a].st = "blocked"
    /\ \E i \in 1 .. Len(mutex_wait[y]) : mutex_wait[y][i] = a

\* Threads a and b are both blocked, each waiting for a mutex the other
\* holds.
MutualWait(a, b) ==
    /\ a # b
    /\ \E x, y \in Mutexes :
          /\ mutex_owner[x] = Some(a)
          /\ mutex_owner[y] = Some(b)
          /\ WaitsFor(a, y)
          /\ WaitsFor(b, x)

\* C12: with detection enabled, when thread A holds mutex X and waits for
\* mutex Y, which thread B holds, B's request of X returns -0xDEAD and B is
\* not blocked; and no sys_mutex_lock call made with detection enabled
\* leaves two threads blocked, each waiting for the mutex the other holds.
C12_LaterCrossRequestReturnsDead ==
    /\ LaterCrossRequest =>
          /\ last.ret = Some(-DEAD)
          /\ tstate[last.tid] = InUser
    /\ (last.kind = "mutex" /\ last.pre.detect) =>
          ~ \E a, b \in Tids : MutualWait(a, b)

\* C12 witness: the later request of a cross pair has returned -0xDEAD.
C12_Witness ==
    /\ LaterCrossRequest
    /\ last.ret = Some(-DEAD)

(***************************************************************************)
(* Properties of the semaphore calls, checked under SpecSem.               *)
(***************************************************************************)
BlockedInDown(t, x) == tstate[t] = Blocked("semaphore", x)

BlockedInDownSet(x) == { t \in DOMAIN tstate : BlockedInDown(t, x) }

\* The step is a sys_semaphore_up on semaphore x.
IsUp(x) == semaphore_available'[x] = semaphore_available[x] + 1

\* The step's sys_semaphore_down found the count of its semaphore 0.
DownOnEmpty ==
    /\ last'.kind = "semaphore"
    /\ last'.pre.prim[last'.id] = 0

\* A thread blocked in down stays blocked in every step that is not an up
\* on its semaphore; an up while k >= 2 threads are blocked wakes exactly
\* one of them and leaves the other k - 1 blocked.
WakesExactlyOne ==
    \A x \in DOMAIN sem_count :
        /\ ~IsUp(x) =>
              \A t \in BlockedInDownSet(x) : tstate'[t] = tstate[t]
        /\ (IsUp(x) /\ Cardinality(BlockedInDownSet(x)) >= 2) =>
              \E w \in BlockedInDownSet(x) :
                  /\ tstate'[w] = Woken("semaphore", x)
                  /\ \A t \in BlockedInDownSet(x) \ {w} :
                        tstate'[t] = tstate[t]

BothFinished ==
    /\ Finished(Producer, Slots, Items)
    /\ Finished(Consumer, Items, Slots)

\* C14: the producer and the consumer both terminate, and afterwards
\* semaphore_available is again 0 for the item semaphore and SlotCount for
\* the slot semaphore.
C14_BothFinishAvailableRestored ==
    <>[](/\ BothFinished
         /\ semaphore_available[Items] = 0
         /\ semaphore_available[Slots] = SlotCount)

(***************************************************************************)
(* Processes: a parent, its children, sys_waitpid and sys_kill.            *)
(*                                                                         *)
(* The parent forks children and reaps them with sys_waitpid; a child      *)
(* exits; a hart inside sys_kill holds the Arc that pid2process returned   *)
(* until the call ends.                                                    *)
(***************************************************************************)
ExitCodes == { 0, 7 }
WaitArgs == { -2, -1 } \cup Pids \cup { MaxPid + 1 }

procRest == << schedVars, lock, guards, borrows, pc, loc, spins, syncVars,
               mmVars, trapVars, fsVars, stopVars >>

(***************************************************************************)
(* pid == -1 || pid as usize == p.getpid(): a negative pid cast to usize   *)
(* is at least 2^63, beyond every pid handed out.                          *)
(***************************************************************************)
PidMatches(pid, p) == pid = -1 \/ (pid >= 0 /\ pid = p)

(***************************************************************************)
(* children.iter().any(..) and children.iter().enumerate().find(..): the   *)
(* first child (an index, as an Option) that is a zombie and matches.      *)
(***************************************************************************)
AnyChildMatches(pid) ==
    \E i \in 1 .. Len(children) : PidMatches(pid, children[i])

FindZombie(pid) ==
    LET found == { i \in 1 .. Len(children) :
                     is_zombie[children[i]] /\ PidMatches(pid, children[i]) }
    IN  IF found = {} THEN None
        ELSE Some(CHOOSE i \in found : \A j \in found : i <= j)

(***************************************************************************)
(* Arc::strong_count of a child taken out of children: the Arc just        *)
(* removed, the entry of PID2PCB while the child has not exited, and the   *)
(* Arcs harts inside sys_kill hold.                                        *)
(***************************************************************************)
StrongCount(p) ==
    1 + (IF p \in pid2pcb THEN 1 ELSE 0)
      + Cardinality({ h \in Harts : kill_hold[h] = Some(p) })

AssertStrongCount(p) == StrongCount(p) = 1

ProcSnapshot ==
    [children |-> children, is_zombie |-> is_zombie, exit_code |-> exit_code]

Waited(pid, ret, out) ==
    [kind |-> "waitpid", pid |-> pid, ret |-> ret, out |-> out,
     pre |-> ProcSnapshot]

(***************************************************************************)
(* sys_fork: the child joins children and PID2PCB.                         *)
(***************************************************************************)
SysFork(p) ==
    /\ ~panicked
    /\ \A i \in 1 .. Len(children) : children[i] # p
    /\ p \notin pid2pcb
    /\ \A h \in Harts : kill_hold[h] # Some(p)
    /\ children' = Append(children, p)
    /\ pid2pcb' = pid2pcb \cup {p}
    /\ is_zombie' = [is_zombie EXCEPT ![p] = FALSE]
    /\ exit_code' = [exit_code EXCEPT ![p] = 0]
    /\ waited' = NoCall
    /\ UNCHANGED << kill_hold, panicked, procRest >>

(***************************************************************************)
(* The last thread of child p exits with a code: the child leaves PID2PCB  *)
(* and becomes a zombie.                                                   *)
(***************************************************************************)
ChildExit(p, code) ==
    /\ ~panicked
    /\ \E i \in 1 .. Len(children) : children[i] = p
    /\ ~is_zombie[p]
    /\ is_zombie' = [is_zombie EXCEPT ![p] = TRUE]
    /\ exit_code' = [exit_code EXCEPT ![p] = code]
    /\ pid2pcb' = pid2pcb \ {p}
    /\ waited' = NoCall
    /\ UNCHANGED << children, kill_hold, panicked, procRest >>

(***************************************************************************)
(* sys_kill(pid, signal) on hart h, up to pid2process returning Some: the  *)
(* hart holds an Arc of the process.                                       *)
(***************************************************************************)
SysKillLookup(h, p) ==
    /\ ~panicked
    /\ kill_hold[h] = None
    /\ p \in pid2pcb
    /\ kill_hold' = [kill_hold EXCEPT ![h] = Some(p)]
    /\ waited' = NoCall
    /\ UNCHANGED << children, is_zombie, exit_code, pid2pcb, panicked,
                    procRest >>

(***************************************************************************)
(* The rest of sys_kill: the signal is recorded in the target and the Arc  *)
(* is dropped.                                                             *)
(***************************************************************************)
SysKillReturn(h) ==
    /\ ~panicked
    /\ kill_hold[h] # None
    /\ kill_hold' = [kill_hold EXCEPT ![h] = None]
    /\ waited' = NoCall
    /\ UNCHANGED << children, is_zombie, exit_code, pid2pcb, panicked,
                    procRest >>

(***************************************************************************)
(* sys_waitpid(pid, exit_code_ptr) of the parent.  ret is None when the    *)
(* call panicked in its assertion; out is what was stored through          *)
(* exit_code_ptr.                                                          *)
(***************************************************************************)
SysWaitpid(pid) ==
    /\ ~panicked
    /\ IF ~AnyChildMatches(pid)
       THEN /\ waited' = Waited(pid, Some(-1), None)
            /\ UNCHANGED << children, panicked >>
       ELSE LET pair == FindZombie(pid)
            IN  IF pair # None
                THEN LET idx == pair[1]
                         child == children[idx]
                     IN  /\ children' = RemoveAt(children, idx)
                         /\ IF AssertStrongCount(child)
                            THEN /\ waited' = Waited(pid, Some(child),
                                                   Some(exit_code[child]))
                                 /\ UNCHANGED panicked
                            ELSE /\ waited' = Waited(pid, None, None)
                                 /\ panicked' = TRUE
                ELSE /\ waited' = Waited(pid, Some(-2), None)
                     /\ UNCHANGED << children, panicked >>
    /\ UNCHANGED << is_zombie, exit_code, kill_hold, pid2pcb, procRest >>

InitWait ==
    /\ SchedAtRest
    /\ pid2pcb = {}
    /\ SmpAtRest
    /\ SyncAtRest
    /\ ProcAtRest
    /\ MmAtRest
    /\ TrapAtRest
    /\ FsAtRest
    /\ StopAtRest

NextWait ==
    \/ \E p \in Pids : SysFork(p)
    \/ \E p \in Pids, code \in ExitCodes : ChildExit(p, code)
    \/ \E h \in Harts, p \in Pids : SysKillLookup(h, p)
    \/ \E h \in Harts : SysKillReturn(h)
    \/ \E pid \in WaitArgs : SysWaitpid(pid)

SpecWait == InitWait /\ [][NextWait]_vars

(***************************************************************************)
(* C15.  A sys_waitpid(pid, out) call returns -1 when no child matches pid *)
(* (pid = -1 matches every child), -2 when matching children exist but     *)
(* none is a zombie, and otherwise removes one matching zombie child from  *)
(* children, stores its exit code through out and returns its pid; on -1   *)
(* and -2 the children list is as before the call.                         *)
(***************************************************************************)
MatchingBefore ==
    { i \in 1 .. Len(waited.pre.children) :
        waited.pid = -1 \/ waited.pid = waited.pre.children[i] }

ZombiesBefore ==
    { i \in MatchingBefore : waited.pre.is_zombie[waited.pre.children[i]] }

C15_WaitpidContract ==
    waited.kind = "waitpid" =>
        /\ MatchingBefore = {} =>
              waited.ret = Some(-1) /\ children = waited.pre.children
        /\ MatchingBefore # {} /\ ZombiesBefore = {} =>
              waited.ret = Some(-2) /\ children = waited.pre.children
        /\ ZombiesBefore # {} =>
              \E i \in ZombiesBefore :
                  /\ children = RemoveAt(waited.pre.children, i)
                  /\ waited.out =
                        Some(waited.pre.exit_code[waited.pre.children[i]])
                  /\ waited.ret = Some(waited.pre.children[i])

(***************************************************************************)
(* The same contract for the calls that return: the reaping case may       *)
(* instead end in the panic of the assertion on the strong count.          *)
(***************************************************************************)
C15_WaitpidContractOrPanic ==
    waited.kind = "waitpid" /\ waited.ret # None => C15_WaitpidContract

C15_Witness ==
    /\ waited.kind = "waitpid"
    /\ waited.ret # None
    /\ ZombiesBefore # {}
    /\ Len(waited.pre.children) = MaxPid
    /\ waited.ret = Some(waited.pre.children[MaxPid])

(***************************************************************************)
(* The user memory set: sys_mmap, sys_munmap and user accesses.            *)
(*                                                                         *)
(* Addresses and lengths are usize values in the representation above: a   *)
(* negative integer k stands for 2^64 + k.  The starts of the model lie    *)
(* in pages 1 .. NPages, HugeLen is 2^64 - PAGE_SIZE, so that start +      *)
(* HugeLen overflows for every start and wraps to start - PAGE_SIZE.       *)
(***************************************************************************)
PAGE_SIZE == 4096
SIGSEGV == "SIGSEGV"

HugeLen == -PAGE_SIZE

Pages == 0 .. NPages + 2
Starts == { n * PAGE_SIZE : n \in 1 .. NPages } \cup { PAGE_SIZE + 1 }
Lengths == { 0, 1, PAGE_SIZE, PAGE_SIZE + 1, 2 * PAGE_SIZE, HugeLen }
Ports == { 0, 3, 9 }

mmRest == << schedVars, smpRest, detect, mutexVars, semVars, cv_wait,
             res_count, tstate, last, procVars, trapLocalVars, ktrap,
             fsVars, stopVars >>

(***************************************************************************)
(* VirtAddr::aligned, VirtAddr::floor and VirtAddr::ceil.                  *)
(***************************************************************************)
Aligned(va) == va % PAGE_SIZE = 0

Floor(va) == va \div PAGE_SIZE

Ceil(va) == IF va = 0 THEN 0 ELSE (va - 1 + PAGE_SIZE) \div PAGE_SIZE

(***************************************************************************)
(* _start + _len leaves the usize range.                                   *)
(***************************************************************************)
AddOverflows(a, b) == (a < 0) # (b < 0) /\ a + b >= 0

(***************************************************************************)
(* _port & !0x7 == 0 && _port & 0x7 != 0.                                  *)
(***************************************************************************)
PortAccepted(port) == port \div 8 = 0 /\ port % 8 # 0

(***************************************************************************)
(* The loop of sys_mmap: some page at current_addr, current_addr +         *)
(* PAGE_SIZE, .. below limit has a valid entry.                            *)
(***************************************************************************)
RECURSIVE MmapFindsValid(_, _)
MmapFindsValid(current_addr, limit) ==
    IF ~UGt(limit, current_addr) THEN FALSE
    ELSE IF Floor(current_addr) \in valid THEN TRUE
    ELSE MmapFindsValid(current_addr + PAGE_SIZE, limit)

(***************************************************************************)
(* The loop of sys_munmap: some page from that of current_addr up to, not  *)
(* including, end_vpn has no valid entry.                                  *)
(***************************************************************************)
RECURSIVE MunmapFindsInvalid(_, _)
MunmapFindsInvalid(current_addr, end_vpn) ==
    IF ~(Floor(current_addr) < end_vpn) THEN FALSE
    ELSE IF Floor(current_addr) \notin valid THEN TRUE
    ELSE MunmapFindsInvalid(current_addr + PAGE_SIZE, end_vpn)

(***************************************************************************)
(* The pages of an area, and the areas that begin at a page.               *)
(***************************************************************************)
PagesOf(area) == { p \in Pages : area.start <= p /\ p < area.end }

BeginningAt(vpn) == { i \in 1 .. Len(areas) : areas[i].start = vpn }

(***************************************************************************)
(* MemorySet::insert_framed_area: the area is pushed and its pages are     *)
(* mapped.  trap_handler has no arm that maps a page on a fault, so the    *)
(* pages are valid from here on.                                           *)
(***************************************************************************)
InsertFramedArea(start_vpn, end_vpn, perm) ==
    LET area == [start |-> start_vpn, end |-> end_vpn, perm |-> perm]
    IN  /\ areas' = Append(areas, area)
        /\ valid' = valid \cup PagesOf(area)

(***************************************************************************)
(* MemorySet::remove_area_with_start_vpn: one area beginning at vpn is     *)
(* unmapped and dropped; nothing happens when there is none.               *)
(***************************************************************************)
RemoveAreaWithStartVpn(vpn) ==
    IF BeginningAt(vpn) = {} THEN UNCHANGED << areas, valid >>
    ELSE \E i \in BeginningAt(vpn) :
            /\ areas' = RemoveAt(areas, i)
            /\ valid' = valid \ PagesOf(areas[i])

MmSnapshot == [areas |-> areas, valid |-> valid]

MmCalled(kind, start, len, port, ret) ==
    [kind |-> kind, start |-> start, len |-> len, port |-> port, ret |-> ret,
     pre |-> MmSnapshot]

(***************************************************************************)
(* sys_mmap(_start, _len, _port).  ret is None when the call panicked.     *)
(***************************************************************************)
SysMmap(start, len, port) ==
    /\ ~panicked
    /\ IF Aligned(start) /\ PortAccepted(port)
       THEN IF AddOverflows(start, len) /\ overflow_checks
            THEN /\ panicked' = TRUE
                 /\ mm_last' = MmCalled("mmap", start, len, port, None)
                 /\ UNCHANGED << areas, valid >>
            ELSE IF MmapFindsValid(start, start + len)
            THEN /\ mm_last' = MmCalled("mmap", start, len, port, Some(-1))
                 /\ UNCHANGED << areas, valid, panicked >>
            ELSE /\ InsertFramedArea(Floor(start), Ceil(start + len), port)
                 /\ mm_last' = MmCalled("mmap", start, len, port, Some(0))
                 /\ UNCHANGED panicked
       ELSE /\ mm_last' = MmCalled("mmap", start, len, port, Some(-1))
            /\ UNCHANGED << areas, valid, panicked >>
    /\ UNCHANGED << overflow_checks, signals, mmRest >>

(***************************************************************************)
(* sys_munmap(_start, _len).                                               *)
(***************************************************************************)
SysMunmap(start, len) ==
    /\ ~panicked
    /\ IF Aligned(start)
       THEN IF AddOverflows(start, len) /\ overflow_checks
            THEN /\ panicked' = TRUE
                 /\ mm_last' = MmCalled("munmap", start, len, 0, None)
                 /\ UNCHANGED << areas, valid >>
            ELSE IF MunmapFindsInvalid(start, Ceil(start + len))
            THEN /\ mm_last' = MmCalled("munmap", start, len, 0, Some(-1))
                 /\ UNCHANGED << areas, valid, panicked >>
            ELSE /\ RemoveAreaWithStartVpn(Floor(start))
                 /\ mm_last' = MmCalled("munmap", start, len, 0, Some(0))
                 /\ UNCHANGED panicked
       ELSE /\ mm_last' = MmCalled("munmap", start, len, 0, Some(-1))
            /\ UNCHANGED << areas, valid, panicked >>
    /\ UNCHANGED << overflow_checks, signals, mmRest >>

(***************************************************************************)
(* A user access to page vpn of a kind the mapping allows: it goes through *)
(* when the page is valid, and otherwise traps into the page-fault arm of  *)
(* trap_handler, which adds SIGSEGV to the signals of the process.         *)
(***************************************************************************)
UserAccess(vpn) ==
    /\ ~panicked
    /\ mm_last' = [kind |-> "access", vpn |-> vpn, fault |-> vpn \notin valid,
                   pre |-> MmSnapshot]
    /\ signals' = IF vpn \notin valid THEN signals \cup {SIGSEGV} ELSE signals
    /\ UNCHANGED << areas, valid, panicked, overflow_checks, mmRest >>

(***************************************************************************)
(* The process stops mapping when it has MaxAreas areas.                   *)
(***************************************************************************)
MmapWithinBounds == Len(areas) < MaxAreas

InitMm ==
    /\ SchedAtRest
    /\ pid2pcb = {}
    /\ SmpAtRest
    /\ overflow_checks \in BOOLEAN
    /\ SyncObjectsAtRest
    /\ SysAtRest

NextMm ==
    \/ \E start \in Starts, len \in Lengths, port \in Ports :
           MmapWithinBounds /\ SysMmap(start, len, port)
    \/ \E start \in Starts, len \in Lengths : SysMunmap(start, len)
    \/ \E vpn \in Pages : UserAccess(vpn)

SpecMm == InitMm /\ [][NextMm]_vars

(***************************************************************************)
(* C16.  sys_mmap returns -1 and leaves the memory set as it was when      *)
(* start is not page-aligned, port has a bit outside its low three bits,   *)
(* the low three bits of port are all zero, or a page overlapping          *)
(* [start, start + len) is already mapped; sys_munmap returns -1 and       *)
(* leaves the memory set as it was when start is not page-aligned or a     *)
(* page overlapping [start, start + len) is not valid.                     *)
(***************************************************************************)
Overlaps(p, start, len) ==
    /\ len # 0
    /\ (p + 1) * PAGE_SIZE > start
    /\ len > 0 => p * PAGE_SIZE < start + len

MemoryAsBefore == areas = mm_last.pre.areas /\ valid = mm_last.pre.valid

Rejected == mm_last.ret = Some(-1) /\ MemoryAsBefore

MmapErrorCase ==
    /\ mm_last.kind = "mmap"
    /\ \/ ~Aligned(mm_last.start)
       \/ mm_last.port \div 8 # 0
       \/ mm_last.port % 8 = 0
       \/ \E p \in Pages : /\ Overlaps(p, mm_last.start, mm_last.len)
                           /\ p \in mm_last.pre.valid

MunmapErrorCase ==
    /\ mm_last.kind = "munmap"
    /\ \/ ~Aligned(mm_last.start)
       \/ \E p \in Pages : /\ Overlaps(p, mm_last.start, mm_last.len)
                           /\ p \notin mm_last.pre.valid

C16_ErrorCasesRejected == MmapErrorCase \/ MunmapErrorCase => Rejected

(***************************************************************************)
(* The same for the calls whose start + len stays within a usize.          *)
(***************************************************************************)
C16_ErrorCasesRejectedInRange ==
    /\ MmapErrorCase \/ MunmapErrorCase
    /\ Aligned(mm_last.start) => mm_last.len >= 0
    => Rejected

C16_Witness ==
    /\ mm_last.kind = "munmap"
    /\ Aligned(mm_last.start)
    /\ mm_last.len = 2 * PAGE_SIZE
    /\ Floor(mm_last.start) \in mm_last.pre.valid
    /\ Floor(mm_last.start) + 1 \notin mm_last.pre.valid
    /\ Rejected

(***************************************************************************)
(* C17.  A sys_munmap(start, len) call whose range covers only part of a   *)
(* mapped area, such as the first page of a two-page area made by one      *)
(* sys_mmap, returns -1 and leaves the whole area mapped.                  *)
(***************************************************************************)
RangePages(start, len) == { p \in Pages : Overlaps(p, start, len) }

CoversPartOf(area) ==
    /\ RangePages(mm_last.start, mm_last.len) # {}
    /\ RangePages(mm_last.start, mm_last.len) \subseteq PagesOf(area)
    /\ RangePages(mm_last.start, mm_last.len) # PagesOf(area)

C17_PartialUnmapRejected ==
    /\ mm_last.kind = "munmap"
    /\ Aligned(mm_last.start)
    /\ mm_last.len > 0
    /\ \E i \in 1 .. Len(mm_last.pre.areas) :
           CoversPartOf(mm_last.pre.areas[i])
    => /\ mm_last.ret = Some(-1)
       /\ MemoryAsBefore

(***************************************************************************)
(* C18.  After sys_munmap(start, len) has returned 0, no page overlapping  *)
(* [start, start + len) is valid in the page table of the caller, and a    *)
(* user access to a page that is not valid takes the fault arm of          *)
(* trap_handler and raises SIGSEGV; this for every range whose pages were  *)
(* all valid, one that begins inside an area or spans two adjacent areas   *)
(* included.                                                               *)
(***************************************************************************)
RangeWasValid ==
    \A p \in RangePages(mm_last.start, mm_last.len) : p \in mm_last.pre.valid

UnmappedRangeInvalid ==
    mm_last.kind = "munmap" /\ mm_last.ret = Some(0) /\ RangeWasValid =>
        \A p \in RangePages(mm_last.start, mm_last.len) : p \notin valid

AccessToInvalidFaults ==
    mm_last.kind = "access" /\ mm_last.vpn \notin mm_last.pre.valid =>
        mm_last.fault /\ SIGSEGV \in signals

C18_UnmappedRangeFaults == UnmappedRangeInvalid /\ AccessToInvalidFaults

(***************************************************************************)
(* C19.  For every start, len and port that sys_mmap accepts, the call     *)
(* sys_mmap(start, len, port) followed by sys_munmap(start, len) returns 0 *)
(* both times and leaves the memory set, areas and valid pages, as it was  *)
(* before the two calls; len = 0 and len not a multiple of the page size   *)
(* included.                                                               *)
(***************************************************************************)
MmapAccepted == mm_last.kind = "mmap" /\ mm_last.ret = Some(0)

MunmapOfTheSame ==
    /\ mm_last'.kind = "munmap"
    /\ mm_last'.start = mm_last.start
    /\ mm_last'.len = mm_last.len

MmapMunmapIsIdentity ==
    MmapAccepted /\ MunmapOfTheSame =>
        /\ mm_last'.ret = Some(0)
        /\ areas' = mm_last.pre.areas
        /\ valid' = mm_last.pre.valid

C19_MmapMunmapIsIdentity == [][MmapMunmapIsIdentity]_vars

(***************************************************************************)
(* The same when no area began at the page of start before the sys_mmap.   *)
(***************************************************************************)
NoAreaBeganAtStart ==
    \A i \in 1 .. Len(mm_last.pre.areas) :
        mm_last.pre.areas[i].start # Floor(mm_last.start)

C19_MmapMunmapIsIdentityAtFreshStart ==
    [][MmapAccepted /\ NoAreaBeganAtStart => MmapMunmapIsIdentity]_vars

(***************************************************************************)
(* trap_handler for one thread.                                            *)
(*                                                                         *)
(* The thread traps from user mode by an ecall, a fault, an illegal        *)
(* instruction or the timer; trap_handler runs its arm, checks the pending *)
(* signals and returns to user mode through trap_return.  Other harts add  *)
(* signals to the process at any time.                                     *)
(***************************************************************************)
SYSCALL_EXIT == 93
SYSCALL_KILL == 129
SYSCALL_GETPID == 172
SYSCALL_EXEC == 221

SyscallIds == { SYSCALL_EXIT, SYSCALL_KILL, SYSCALL_GETPID, SYSCALL_EXEC }
UserPcs == { 0, 4, 16 }
Results == { -1, 0, 2 }
ENTRY == 64
SIGILL == "SIGILL"

trapRest == << schedVars, smpRest, panicked, syncVars, procVars, mmVars,
              ktrap, fsVars, stopVars >>

Did(ev) == Append(events, ev)

(***************************************************************************)
(* current_trap_cx(), as called after the syscall has returned.            *)
(***************************************************************************)
CurrentTrapCxStale == tloc.cx

CurrentTrapCxAfterCall == cur_cx

(***************************************************************************)
(* The thread executes ecall at address upc with id in x17 and a0 in x10.  *)
(***************************************************************************)
UserEnvCall(upc, id, a0) ==
    /\ tpc = "user"
    /\ trap_cx' = [trap_cx EXCEPT ![cur_cx] =
                      [sepc |-> upc, x10 |-> a0, x17 |-> id]]
    /\ tloc' = [NoTrap EXCEPT !.cause = "ecall", !.cx = cur_cx,
                               !.sepc0 = upc, !.id0 = id]
    /\ tpc' = "ecall"
    /\ events' = << >>
    /\ UNCHANGED << cur_cx, signals, trapRest >>

(***************************************************************************)
(* let mut cx = current_trap_cx(); cx.sepc += 4.                           *)
(***************************************************************************)
AdvanceSepc ==
    /\ tpc = "ecall"
    /\ tloc' = [tloc EXCEPT !.cx = cur_cx]
    /\ trap_cx' = [trap_cx EXCEPT ![cur_cx].sepc = @ + 4]
    /\ events' = Did([ev |-> "sepc"])
    /\ tpc' = "syscall"
    /\ UNCHANGED << cur_cx, signals, trapRest >>

Dispatched ==
    [ev |-> "syscall", id |-> trap_cx[tloc.cx].x17,
     sepc |-> trap_cx[tloc.cx].sepc]

(***************************************************************************)
(* syscall(cx.x[17], ..) for a call that returns result and leaves the     *)
(* trap context in place.                                                  *)
(***************************************************************************)
SyscallReturns(result) ==
    /\ tpc = "syscall"
    /\ trap_cx[tloc.cx].x17 \in { SYSCALL_GETPID, SYSCALL_EXEC }
    /\ trap_cx[tloc.cx].x17 = SYSCALL_EXEC => result = -1
    /\ tloc' = [tloc EXCEPT !.result = result]
    /\ events' = Did(Dispatched)
    /\ tpc' = "result"
    /\ UNCHANGED << trap_cx, cur_cx, signals, trapRest >>

(***************************************************************************)
(* sys_exec that succeeds: the address space and with it the trap context  *)
(* are replaced; the new context starts at the entry point; the call       *)
(* returns argc.                                                           *)
(***************************************************************************)
SyscallExec(argc) ==
    /\ tpc = "syscall"
    /\ trap_cx[tloc.cx].x17 = SYSCALL_EXEC
    /\ cur_cx' = 1 - cur_cx
    /\ trap_cx' = [trap_cx EXCEPT ![1 - cur_cx] =
                      [sepc |-> ENTRY, x10 |-> argc, x17 |-> 0]]
    /\ tloc' = [tloc EXCEPT !.result = argc]
    /\ events' = Did(Dispatched)
    /\ tpc' = "result"
    /\ UNCHANGED << signals, trapRest >>

(***************************************************************************)
(* sys_kill on the own process: the signal is recorded, the call returns 0.*)
(***************************************************************************)
SyscallKill(sig) ==
    /\ tpc = "syscall"
    /\ trap_cx[tloc.cx].x17 = SYSCALL_KILL
    /\ signals' = signals \cup {sig}
    /\ tloc' = [tloc EXCEPT !.result = 0]
    /\ events' = Did(Dispatched)
    /\ tpc' = "result"
    /\ UNCHANGED << trap_cx, cur_cx, trapRest >>

(***************************************************************************)
(* sys_exit: the call does not return.                                     *)
(***************************************************************************)
SyscallExit ==
    /\ tpc = "syscall"
    /\ trap_cx[tloc.cx].x17 = SYSCALL_EXIT
    /\ events' = Did(Dispatched)
    /\ tpc' = "exited"
    /\ UNCHANGED << trap_cx, cur_cx, tloc, signals, trapRest >>

(***************************************************************************)
(* cx = current_trap_cx(); cx.x[10] = result as usize.  A negative result  *)
(* is the usize 2^64 + result, which the same integer stands for.          *)
(***************************************************************************)
WriteResult ==
    /\ tpc = "result"
    /\ trap_cx' = [trap_cx EXCEPT ![CurrentTrapCxAfterCall].x10 = tloc.result]
    /\ tloc' = [tloc EXCEPT !.cx = CurrentTrapCxAfterCall]
    /\ events' = Did([ev |-> "x10", cx |-> CurrentTrapCxAfterCall,
                      cur |-> cur_cx, val |-> tloc.result])
    /\ tpc' = "signals"
    /\ UNCHANGED << cur_cx, signals, trapRest >>

(***************************************************************************)
(* The causes of a trap from user mode that the fault arms and the         *)
(* illegal-instruction arm of trap_handler match, and the signal each arm  *)
(* adds.                                                                   *)
(***************************************************************************)
FaultCauses ==
    { "StoreFault", "StorePageFault", "InstructionFault",
      "InstructionPageFault", "LoadFault", "LoadPageFault" }

SignalOfSwapped(scause) ==
    IF scause \in FaultCauses THEN Some(SIGILL) ELSE Some(SIGSEGV)

SignalOf(scause) ==
    IF scause \in FaultCauses THEN Some(SIGSEGV)
    ELSE IF scause = "IllegalInstruction" THEN Some(SIGILL)
    ELSE None

(***************************************************************************)
(* The errno check_signals_of_current reports for a pending signal.        *)
(***************************************************************************)
ErrnoOf(sig) == IF sig = SIGSEGV THEN -11 ELSE -4

(***************************************************************************)
(* The fault arms and the illegal-instruction arm: the signal is added.    *)
(***************************************************************************)
UserFault(scause) ==
    /\ tpc = "user"
    /\ SignalOf(scause) # None
    /\ signals' = signals \cup { SignalOf(scause)[1] }
    /\ tloc' = [NoTrap EXCEPT !.cause = "fault", !.scause = scause,
                               !.added = SignalOf(scause)]
    /\ events' = << >>
    /\ tpc' = "signals"
    /\ UNCHANGED << trap_cx, cur_cx, trapRest >>

(***************************************************************************)
(* The timer arm: the thread is suspended and later goes on from there.    *)
(***************************************************************************)
SupervisorTimer ==
    /\ tpc = "user"
    /\ tloc' = [NoTrap EXCEPT !.cause = "timer"]
    /\ events' = << >>
    /\ tpc' = "signals"
    /\ UNCHANGED << trap_cx, cur_cx, signals, trapRest >>

(***************************************************************************)
(* check_signals_of_current and what follows: with a signal pending the    *)
(* check reports one of the pending signals with its errno and the thread  *)
(* leaves through exit_current_and_run_next(errno); otherwise trap_return  *)
(* is next.                                                                *)
(***************************************************************************)
CheckSignals ==
    /\ tpc = "signals"
    /\ events' = Did([ev |-> "check"])
    /\ IF signals # {}
       THEN /\ \E sig \in signals :
                   tloc' = [tloc EXCEPT !.reported =
                               Some([sig |-> sig, errno |-> ErrnoOf(sig),
                                     exit_code |-> ErrnoOf(sig)])]
            /\ tpc' = "exited"
       ELSE /\ tpc' = "return"
            /\ UNCHANGED tloc
    /\ UNCHANGED << trap_cx, cur_cx, signals, trapRest >>

(***************************************************************************)
(* trap_return: back to user mode.                                         *)
(***************************************************************************)
TrapReturn ==
    /\ tpc = "return"
    /\ events' = Did([ev |-> "return"])
    /\ tpc' = "user"
    /\ UNCHANGED << trap_cx, cur_cx, tloc, signals, trapRest >>

(***************************************************************************)
(* sys_kill from a thread on another hart adds a signal to the process.    *)
(***************************************************************************)
KilledByOther(sig) ==
    /\ tpc # "exited"
    /\ sig \notin signals
    /\ signals' = signals \cup {sig}
    /\ UNCHANGED << trapLocalVars, trapRest >>

InitTrap ==
    /\ SchedAtRest
    /\ pid2pcb = {}
    /\ SmpAtRest
    /\ SyncAtRest
    /\ SysAtRest

NextTrap ==
    \/ \E upc \in UserPcs, id \in SyscallIds, a0 \in Results :
           UserEnvCall(upc, id, a0)
    \/ AdvanceSepc
    \/ \E result \in Results : SyscallReturns(result)
    \/ \E argc \in { 0, 2 } : SyscallExec(argc)
    \/ \E sig \in { SIGSEGV, SIGILL } : SyscallKill(sig)
    \/ SyscallExit
    \/ WriteResult
    \/ \E scause \in FaultCauses \cup { "IllegalInstruction" } :
           UserFault(scause)
    \/ SupervisorTimer
    \/ CheckSignals
    \/ TrapReturn
    \/ \E sig \in { SIGSEGV, SIGILL } : KilledByOther(sig)

SpecTrap == InitTrap /\ [][NextTrap]_vars

(***************************************************************************)
(* C20.  On a user ecall trap_handler advances sepc by 4 exactly once      *)
(* before it calls the syscall dispatcher with the id in x17, then writes  *)
(* the result into x10 of the trap context that is current after the call  *)
(* (the replaced context after an exec), then checks the pending signals,  *)
(* and only then returns to user mode.                                     *)
(***************************************************************************)
EcallOrder == << "sepc", "syscall", "x10", "check", "return" >>

C20_EcallStepsInOrder ==
    tloc.cause = "ecall" =>
        /\ Len(events) <= Len(EcallOrder)
        /\ \A i \in 1 .. Len(events) : events[i].ev = EcallOrder[i]
        /\ Len(events) >= 2 =>
              /\ events[2].sepc = tloc.sepc0 + 4
              /\ events[2].id = tloc.id0
        /\ Len(events) >= 3 =>
              /\ events[3].cx = events[3].cur
              /\ events[3].val = tloc.result
              /\ tpc = "signals" =>
                    trap_cx[cur_cx].x10 = tloc.result
        /\ tpc \in { "user", "return" } /\ events # << >> =>
              Len(events) >= Len(EcallOrder) - 1
        /\ tpc = "user" => Len(events) = Len(EcallOrder)

C20_Witness ==
    /\ tloc.cause = "ecall"
    /\ tpc = "user"
    /\ Len(events) = Len(EcallOrder)
    /\ events[2].id = SYSCALL_EXEC
    /\ cur_cx = 1
    /\ trap_cx[cur_cx].x10 = 2
    /\ trap_cx[cur_cx].sepc = ENTRY

(***************************************************************************)
(* C21.  A load, store or instruction fault taken in user mode adds        *)
(* SIGSEGV and an illegal instruction adds SIGILL to the signals of the    *)
(* current process; when the signal check of that same trap reports that   *)
(* signal, the thread leaves through exit_current_and_run_next with the    *)
(* errno of that signal and does not return to user mode.                  *)
(***************************************************************************)
ExpectedSignal ==
    IF tloc.scause = "IllegalInstruction" THEN SIGILL ELSE SIGSEGV

C21_FaultSignalsAndExits ==
    tloc.cause = "fault" =>
        /\ ExpectedSignal \in signals
        /\ tpc \in { "signals", "exited" }
        /\ tpc = "exited" =>
              /\ tloc.reported # None
              /\ tloc.reported[1].sig = ExpectedSignal =>
                    tloc.reported[1].exit_code = ErrnoOf(ExpectedSignal)

C21_Witness ==
    /\ tloc.cause = "fault"
    /\ tloc.scause = "LoadPageFault"
    /\ tpc = "exited"
    /\ signals = { SIGSEGV, SIGILL }
    /\ tloc.reported[1].sig = SIGSEGV

(***************************************************************************)
(* trap_from_kernel: a trap taken while the hart runs kernel code for the  *)
(* thread.  The call panics or returns to the interrupted code.            *)
(***************************************************************************)
KernelCauses ==
    { "SupervisorSoft", "SupervisorTimer", "SupervisorExternal",
      "IllegalInstruction", "StorePageFault", "LoadFault" }

Spps == { "User", "Supervisor" }

KernelTrapReturnsTimerOnly(spp, scause) ==
    spp = "Supervisor" /\ scause = "SupervisorTimer"

KernelTrapReturns(spp, scause) ==
    /\ spp = "Supervisor"
    /\ scause \in { "SupervisorSoft", "SupervisorTimer" }

TrapFromKernel(spp, scause) ==
    /\ ~panicked
    /\ tpc \notin { "user", "exited" }
    /\ ktrap' = [kind |-> "trap_from_kernel", spp |-> spp, scause |-> scause,
                 returned |-> KernelTrapReturns(spp, scause)]
    /\ panicked' = ~KernelTrapReturns(spp, scause)
    /\ UNCHANGED << schedVars, smpRest, syncVars, procVars, mmVars, signals,
                    trapLocalVars, fsVars, stopVars >>

NextKernelTrap ==
    \/ ~panicked /\ NextTrap
    \/ \E spp \in Spps, scause \in KernelCauses : TrapFromKernel(spp, scause)

SpecKernelTrap == InitTrap /\ [][NextKernelTrap]_vars

(***************************************************************************)
(* C22.  Every trap taken in supervisor mode whose cause is not the        *)
(* supervisor timer interrupt makes trap_from_kernel panic; the timer      *)
(* interrupt is the only cause after which trap_from_kernel returns to the *)
(* interrupted kernel code.                                                *)
(***************************************************************************)
C22_OnlyTimerReturns ==
    ktrap.kind = "trap_from_kernel" /\ ktrap.spp = "Supervisor" =>
        /\ ktrap.scause # "SupervisorTimer" => panicked /\ ~ktrap.returned
        /\ ktrap.returned => ktrap.scause = "SupervisorTimer"

(***************************************************************************)
(* The same with the supervisor software interrupt as a second cause that  *)
(* returns: every other cause panics, and the timer and the software       *)
(* interrupt are the only causes after which trap_from_kernel returns.     *)
(***************************************************************************)
C22_OnlyTimerAndSoftReturn ==
    ktrap.kind = "trap_from_kernel" /\ ktrap.spp = "Supervisor" =>
        /\ ktrap.scause \notin { "SupervisorTimer", "SupervisorSoft" } =>
              panicked /\ ~ktrap.returned
        /\ ktrap.returned =>
              ktrap.scause \in { "SupervisorTimer", "SupervisorSoft" }
        /\ ktrap.scause \in { "SupervisorTimer", "SupervisorSoft" } =>
              ktrap.returned

C22_Witness ==
    /\ ktrap.kind = "trap_from_kernel"
    /\ ktrap.spp = "Supervisor"
    /\ ktrap.scause = "SupervisorSoft"
    /\ ktrap.returned
    /\ ~panicked
    /\ tpc = "user"

(***************************************************************************)
(* The easy-fs root directory and its files: Inode::create,                *)
(* Inode::insert_link_entry (under sys_linkat), Inode::remove_link_entry   *)
(* and Inode::write_at, each executed by a hart.  The filesystem lock is   *)
(* a spin lock: a hart that finds it taken waits until it is free.  Every  *)
(* closure given to modify_disk_inode or read_disk_inode runs under the    *)
(* block-cache lock of the inode's block, hence is one step.  A block has  *)
(* EntriesPerBlock directory entries; the indirect blocks of a DiskInode   *)
(* are beyond the sizes reached here.                                      *)
(***************************************************************************)
DIRENT_SZ == 32

BLOCK_SZ == EntriesPerBlock * DIRENT_SZ

Names == { "a", "b", "c" }

Bufs == { << 7 >>, << 8, 9 >> }

Blocks == 0 .. MaxBlocks - 1

Inodes == 0 .. MaxInodes

fsRest == << schedVars, smpVars, syncVars, procVars, mmVars, trapVars,
            stopVars >>

SetMin(S) == CHOOSE x \in S : \A y \in S : x <= y

SeqRange(v) == { v[i] : i \in 1 .. Len(v) }

(***************************************************************************)
(* Bitmap::alloc gives the lowest clear bit; EasyFileSystem::alloc_data    *)
(* is called once for every block needed.                                  *)
(***************************************************************************)
RECURSIVE AllocData(_, _)
AllocData(bm, n) ==
    IF n = 0
    THEN << >>
    ELSE LET b == SetMin(Blocks \ bm)
         IN  << b >> \o AllocData(bm \cup {b}, n - 1)

AllocInode(bm) == SetMin(Inodes \ bm)

InodeBitmapUnmarked(bm, id) == bm

InodeBitmapAfterAlloc(bm, id) == bm \cup {id}

(***************************************************************************)
(* DiskInode: the blocks of an inode exactly cover its size.               *)
(***************************************************************************)
TotalBlocks(size) == (size + BLOCK_SZ - 1) \div BLOCK_SZ

BlocksNumNeeded(di, new_size) == TotalBlocks(new_size) - TotalBlocks(di.size)

(***************************************************************************)
(* Inode::increase_size: nothing when the inode is already larger, else    *)
(* the blocks needed are allocated and appended, and size becomes new_size.*)
(***************************************************************************)
IncreaseSize(new_size, di, bm) ==
    IF new_size < di.size
    THEN [inode |-> di, bitmap |-> bm]
    ELSE LET v == AllocData(bm, BlocksNumNeeded(di, new_size))
         IN  [inode |-> [di EXCEPT !.size = new_size, !.direct = @ \o v],
              bitmap |-> bm \cup SeqRange(v)]

(***************************************************************************)
(* Inode::decrease_size: nothing when the inode is smaller than new_size,  *)
(* else DiskInode::decrease_size keeps the blocks covering new_size and    *)
(* returns the others.                                                     *)
(***************************************************************************)
DecreaseSizeKeepsBlocks(new_size, di) ==
    IF new_size > di.size
    THEN [inode |-> di, recycle_blocks |-> << >>]
    ELSE [inode |-> [di EXCEPT !.size = new_size],
          recycle_blocks |-> << >>]

DecreaseSize(new_size, di) ==
    IF new_size > di.size
    THEN [inode |-> di, recycle_blocks |-> << >>]
    ELSE LET keep == TotalBlocks(new_size)
         IN  [inode |-> [size |-> new_size,
                         direct |-> SubSeq(di.direct, 1, keep),
                         data |-> SubSeq(di.data, 1,
                                         keep * EntriesPerBlock)],
              recycle_blocks |-> SubSeq(di.direct, keep + 1,
                                        Len(di.direct))]

(***************************************************************************)
(* The data of the root directory is a sequence of entries, one for every  *)
(* 32 bytes of its blocks; a block just allocated is all zeroes.  The      *)
(* entries below size / DIRENT_SZ are the directory.                       *)
(***************************************************************************)
ZeroFilled(di) ==
    [di EXCEPT !.data =
        [i \in 1 .. Len(di.direct) * EntriesPerBlock |->
            IF i <= Len(di.data) THEN di.data[i] ELSE EmptyDirEntry]]

FileCount(di) == di.size \div DIRENT_SZ

Dirents(di) == SubSeq(di.data, 1, FileCount(di))

DirEntry(name, inode_id) == [name |-> name, inode_id |-> inode_id]

(***************************************************************************)
(* The scan of find_inode_id and of remove_link_entry: the first entry     *)
(* with the name.                                                          *)
(***************************************************************************)
FindIndex(name, di) ==
    LET hits == { i \in 0 .. FileCount(di) - 1 : di.data[i + 1].name = name }
    IN  IF hits = {} THEN None ELSE Some(SetMin(hits))

FindInodeId(name, di) ==
    IF FindIndex(name, di) = None
    THEN None
    ELSE Some(di.data[FindIndex(name, di)[1] + 1].inode_id)

(***************************************************************************)
(* Inode::write_at of one entry on the root directory: increase_size to    *)
(* the end of the entry, then DiskInode::write_at.                         *)
(***************************************************************************)
WriteDirent(index, dirent, di, bm) ==
    LET r == IncreaseSize((index + 1) * DIRENT_SZ, di, bm)
        grown == ZeroFilled(r.inode)
    IN  [inode |-> [grown EXCEPT !.data[index + 1] = dirent],
         bitmap |-> r.bitmap]

(***************************************************************************)
(* The closure of create and of insert_link_entry that appends an entry.   *)
(***************************************************************************)
AppendDirent(dirent, di, bm) == WriteDirent(FileCount(di), dirent, di, bm)

(***************************************************************************)
(* DiskInode::read_at and Inode::write_at on a file: bytes from offset.    *)
(***************************************************************************)
Smaller(a, b) == IF a < b THEN a ELSE b

ReadAt(offset, len, di) ==
    LET end == Smaller(offset + len, di.size)
    IN  IF offset >= end THEN << >> ELSE SubSeq(di.data, offset + 1, end)

WriteBytesNothing(offset, buf, di, bm) == [inode |-> di, bitmap |-> bm]

WriteBytes(offset, buf, di, bm) ==
    LET r == IncreaseSize(offset + Len(buf), di, bm)
    IN  [inode |-> [r.inode EXCEPT !.data =
                       [i \in 1 .. r.inode.size |->
                           IF i > offset /\ i <= offset + Len(buf)
                           THEN buf[i - offset]
                           ELSE IF i <= Len(di.data) THEN di.data[i] ELSE 0]],
         bitmap |-> r.bitmap]

(***************************************************************************)
(* What a call sees when it starts, and its record when it returns.        *)
(***************************************************************************)
FsSnapshot ==
    [dir |-> Dirents(root_inode), size |-> root_inode.size,
     data_bitmap |-> data_bitmap, inode_bitmap |-> inode_bitmap,
     files |-> files]

FsInFlight == { g \in Harts : fpc[g] # "idle" }

FsCall(h, op, name, old, ino, buf) ==
    [NoFsCall EXCEPT !.op = op, !.name = name, !.old = old, !.ino = ino,
                     !.buf = buf, !.pre = FsSnapshot,
                     !.alone = (FsInFlight = {}),
                     !.k = Len(fs_hist) + Cardinality(FsInFlight)]

\* the call of hart h goes on: the calls in flight are no longer alone
Started(h, call) ==
    [g \in Harts |->
        IF g = h THEN call
        ELSE IF fpc[g] # "idle" THEN [floc[g] EXCEPT !.alone = FALSE]
        ELSE floc[g]]

Returned(h, call) ==
    /\ fpc' = [fpc EXCEPT ![h] = "idle"]
    /\ floc' = Started(h, NoFsCall)
    /\ fs_hist' = Append(fs_hist, call)

(***************************************************************************)
(* Inode::create(name): under the filesystem lock, None when the name      *)
(* exists; else an inode is allocated and initialized as an empty file     *)
(* and an entry is appended to the root directory.                         *)
(***************************************************************************)
CreateFind(h, name) ==
    /\ fpc[h] = "idle"
    /\ fs_lock = None
    /\ LET call == FsCall(h, "create", name, "", 0, << >>)
       IN  IF FindInodeId(name, root_inode) # None
           THEN /\ Returned(h, [call EXCEPT !.found = None])
                /\ UNCHANGED fs_lock
           ELSE /\ fs_lock' = Some(h)
                /\ fpc' = [fpc EXCEPT ![h] = "create_append"]
                /\ floc' = Started(h, call)
                /\ UNCHANGED fs_hist
    /\ UNCHANGED << root_inode, files, inode_bitmap, data_bitmap, fsRest >>

CreateAppend(h) ==
    /\ fpc[h] = "create_append"
    /\ LET new_inode_id == AllocInode(inode_bitmap)
           r == AppendDirent(DirEntry(floc[h].name, new_inode_id),
                             root_inode, data_bitmap)
       IN  /\ inode_bitmap' = InodeBitmapAfterAlloc(inode_bitmap, new_inode_id)
           /\ files' = [files EXCEPT ![new_inode_id] = EmptyDiskInode]
           /\ root_inode' = r.inode
           /\ data_bitmap' = r.bitmap
           /\ Returned(h, [floc[h] EXCEPT !.found = Some(new_inode_id)])
    /\ fs_lock' = None
    /\ UNCHANGED fsRest

(***************************************************************************)
(* sys_linkat(old, new): -1 when the two names are equal; else             *)
(* create_link, that is Inode::insert_link_entry on the root directory,    *)
(* and then 0 whatever insert_link_entry returned.  insert_link_entry      *)
(* holds the filesystem lock: None when no entry is named old, else an     *)
(* entry (new, inode of old) is appended.                                  *)
(***************************************************************************)
LinkatResultChecked(inserted) == IF inserted = None THEN -1 ELSE 0

LinkatResult(inserted) == 0

SysLinkat(h, old, new) ==
    /\ fpc[h] = "idle"
    /\ LET call == FsCall(h, "linkat", new, old, 0, << >>)
       IN  IF old = new
           THEN /\ Returned(h, [call EXCEPT !.ret = -1])
                /\ UNCHANGED fs_lock
           ELSE /\ fs_lock = None
                /\ IF FindInodeId(old, root_inode) = None
                   THEN /\ Returned(h, [call EXCEPT
                                          !.found = None,
                                          !.ret = LinkatResult(None)])
                        /\ UNCHANGED fs_lock
                   ELSE /\ fs_lock' = Some(h)
                        /\ fpc' = [fpc EXCEPT ![h] = "link_append"]
                        /\ floc' = Started(h, [call EXCEPT !.link_inode_id =
                                       FindInodeId(old, root_inode)[1]])
                        /\ UNCHANGED fs_hist
    /\ UNCHANGED << root_inode, files, inode_bitmap, data_bitmap, fsRest >>

InsertLinkAppend(h) ==
    /\ fpc[h] = "link_append"
    /\ LET r == AppendDirent(DirEntry(floc[h].name, floc[h].link_inode_id),
                             root_inode, data_bitmap)
           inserted == Some(floc[h].link_inode_id)
       IN  /\ root_inode' = r.inode
           /\ data_bitmap' = r.bitmap
           /\ Returned(h, [floc[h] EXCEPT !.found = inserted,
                                          !.ret = LinkatResult(inserted)])
    /\ fs_lock' = None
    /\ UNCHANGED << files, inode_bitmap, fsRest >>

(***************************************************************************)
(* Inode::write_at(offset, buf) on a file, under the filesystem lock.      *)
(***************************************************************************)
WriteAt(h, ino, offset, buf) ==
    /\ fpc[h] = "idle"
    /\ fs_lock = None
    /\ ino \in inode_bitmap \ {0}
    /\ LET r == WriteBytes(offset, buf, files[ino], data_bitmap)
       IN  /\ files' = [files EXCEPT ![ino] = r.inode]
           /\ data_bitmap' = r.bitmap
           /\ Returned(h, [FsCall(h, "write_at", "", "", ino, buf)
                             EXCEPT !.ret = Len(buf)])
    /\ UNCHANGED << root_inode, inode_bitmap, fs_lock, fsRest >>

(***************************************************************************)
(* Inode::remove_link_entry(name), statement by statement.  The scan and   *)
(* the decrease_size are closures of modify_disk_inode on the root inode   *)
(* and take no filesystem lock; self.read_at, self.write_at and the        *)
(* deallocation each take it and release it.                               *)
(***************************************************************************)
RemoveScan(h, name) ==
    /\ fpc[h] = "idle"
    /\ LET call == [FsCall(h, "remove", name, "", 0, << >>)
                      EXCEPT !.file_count = FileCount(root_inode)]
           found == FindIndex(name, root_inode)
       IN  IF found = None
           THEN Returned(h, [call EXCEPT !.ret = -1])
           ELSE /\ fpc' = [fpc EXCEPT ![h] = "remove_read"]
                /\ floc' = Started(h, [call EXCEPT !.remove_index = found[1],
                                                    !.found = found])
                /\ UNCHANGED fs_hist
    /\ UNCHANGED << root_inode, files, inode_bitmap, data_bitmap, fs_lock,
                    fsRest >>

LastIndexIsFirst(file_count) == 0

LastIndex(file_count) == file_count - 1

\* self.read_at((file_count - 1) * DIRENT_SZ, last_dirent): nothing is read
\* at or beyond the size, and last_dirent stays DirEntry::empty()
RemoveRead(h) ==
    /\ fpc[h] = "remove_read"
    /\ fs_lock = None
    /\ LET last_index == LastIndex(floc[h].file_count)
       IN  floc' = [floc EXCEPT ![h].last_dirent =
                       IF last_index * DIRENT_SZ >= root_inode.size
                       THEN EmptyDirEntry
                       ELSE root_inode.data[last_index + 1]]
    /\ fpc' = [fpc EXCEPT ![h] = "remove_write"]
    /\ UNCHANGED << root_inode, files, inode_bitmap, data_bitmap, fs_lock,
                    fs_hist, fsRest >>

\* self.write_at(remove_index * DIRENT_SZ, last_dirent)
RemoveWrite(h) ==
    /\ fpc[h] = "remove_write"
    /\ fs_lock = None
    /\ LET r == WriteDirent(floc[h].remove_index, floc[h].last_dirent,
                            root_inode, data_bitmap)
       IN  /\ root_inode' = r.inode
           /\ data_bitmap' = r.bitmap
    /\ fpc' = [fpc EXCEPT ![h] = "remove_decrease"]
    /\ UNCHANGED << files, inode_bitmap, fs_lock, floc, fs_hist, fsRest >>

\* recycle_blocks = self.decrease_size((file_count - 1) * DIRENT_SZ, root)
RemoveDecrease(h) ==
    /\ fpc[h] = "remove_decrease"
    /\ LET r == DecreaseSize((floc[h].file_count - 1) * DIRENT_SZ, root_inode)
       IN  /\ root_inode' = r.inode
           /\ floc' = [floc EXCEPT ![h].recycle_blocks = r.recycle_blocks]
    /\ fpc' = [fpc EXCEPT ![h] = "remove_dealloc"]
    /\ UNCHANGED << files, inode_bitmap, data_bitmap, fs_lock, fs_hist,
                    fsRest >>

\* fs.lock(); fs.dealloc_data(block_id) for every recycled block; return 0
RemoveDealloc(h) ==
    /\ fpc[h] = "remove_dealloc"
    /\ fs_lock = None
    /\ data_bitmap' = data_bitmap \ SeqRange(floc[h].recycle_blocks)
    /\ Returned(h, [floc[h] EXCEPT !.ret = 0])
    /\ UNCHANGED << root_inode, files, inode_bitmap, fs_lock, fsRest >>

(***************************************************************************)
(* The calls a bounded run makes: MaxFsCalls calls in all, a directory of  *)
(* at most MaxDirEntries entries, at most MaxInodes files.                 *)
(***************************************************************************)
FsCallsWithinBounds == Len(fs_hist) + Cardinality(FsInFlight) < MaxFsCalls

DirWithinBounds == FileCount(root_inode) < MaxDirEntries

InodesWithinBounds == inode_bitmap # Inodes

InitFs ==
    /\ SchedAtRest
    /\ pid2pcb = {}
    /\ SmpAtRest
    /\ SyncAtRest
    /\ SysAtRest

NextFs ==
    \/ \E h \in Harts, name \in Names :
           /\ FsCallsWithinBounds /\ DirWithinBounds /\ InodesWithinBounds
           /\ CreateFind(h, name)
    \/ \E h \in Harts : CreateAppend(h)
    \/ \E h \in Harts, old \in Names, new \in Names :
           FsCallsWithinBounds /\ DirWithinBounds /\ SysLinkat(h, old, new)
    \/ \E h \in Harts : InsertLinkAppend(h)
    \/ \E h \in Harts, ino \in FileInodes, buf \in Bufs :
           FsCallsWithinBounds /\ WriteAt(h, ino, 0, buf)
    \/ \E h \in Harts, name \in Names :
           FsCallsWithinBounds /\ RemoveScan(h, name)
    \/ \E h \in Harts : RemoveRead(h)
    \/ \E h \in Harts : RemoveWrite(h)
    \/ \E h \in Harts : RemoveDecrease(h)
    \/ \E h \in Harts : RemoveDealloc(h)

SpecFs == InitFs /\ [][NextFs]_vars

FsTypeOK ==
    /\ root_inode.size >= 0
    /\ Len(root_inode.data) = Len(root_inode.direct) * EntriesPerBlock

(***************************************************************************)
(* One appending call against one remove_link_entry: hart 0 makes one      *)
(* create or one sys_linkat, hart 1 one remove_link_entry, on a directory  *)
(* that earlier calls have built.                                          *)
(***************************************************************************)
RaceDirs ==
    { << DirEntry("a", 1) >>,
      << DirEntry("a", 1), DirEntry("b", 1) >>,
      << DirEntry("a", 1), DirEntry("b", 2) >>,
      << DirEntry("a", 1), DirEntry("b", 1), DirEntry("c", 1) >>,
      << DirEntry("a", 1), DirEntry("b", 2), DirEntry("c", 1) >> }

DirectoryOf(dir) ==
    ZeroFilled([size |-> Len(dir) * DIRENT_SZ,
                direct |-> [i \in 1 .. TotalBlocks(Len(dir) * DIRENT_SZ) |->
                               i - 1],
                data |-> dir])

InitFsRace ==
    /\ SchedAtRest
    /\ pid2pcb = {}
    /\ SmpAtRest
    /\ SyncAtRest
    /\ ProcAtRest
    /\ MmAtRest
    /\ TrapAtRest
    /\ StopAtRest
    /\ \E dir \in RaceDirs :
           /\ root_inode = DirectoryOf(dir)
           /\ inode_bitmap = {0} \cup { dir[i].inode_id : i \in 1 .. Len(dir) }
           /\ data_bitmap = SeqRange(DirectoryOf(dir).direct)
    /\ files = [i \in FileInodes |-> EmptyDiskInode]
    /\ fs_lock = None
    /\ fpc = [h \in Harts |-> "idle"]
    /\ floc = [h \in Harts |-> NoFsCall]
    /\ fs_hist = << >>

Appending == { "create", "linkat" }

NoAppendYet ==
    /\ fpc[0] = "idle"
    /\ \A i \in 1 .. Len(fs_hist) : fs_hist[i].op \notin Appending

NoRemoveYet ==
    /\ fpc[1] = "idle"
    /\ \A i \in 1 .. Len(fs_hist) : fs_hist[i].op # "remove"

NextFsRace ==
    \/ \E name \in Names :
           NoAppendYet /\ InodesWithinBounds /\ CreateFind(0, name)
    \/ CreateAppend(0)
    \/ \E old \in Names, new \in Names : NoAppendYet /\ SysLinkat(0, old, new)
    \/ InsertLinkAppend(0)
    \/ \E name \in Names : NoRemoveYet /\ RemoveScan(1, name)
    \/ RemoveRead(1)
    \/ RemoveWrite(1)
    \/ RemoveDecrease(1)
    \/ RemoveDealloc(1)

SpecFsRace == InitFsRace /\ [][NextFsRace]_vars

(***************************************************************************)
(* What a call makes of a directory when it runs alone from start to end.  *)
(***************************************************************************)
FirstNamed(name, dir) ==
    SetMin({ i \in 1 .. Len(dir) : dir[i].name = name })

HasName(name, dir) == \E i \in 1 .. Len(dir) : dir[i].name = name

DirAfterCreate(name, inode_id, dir) ==
    IF HasName(name, dir) THEN dir ELSE Append(dir, DirEntry(name, inode_id))

DirAfterLinkat(old, new, dir) ==
    IF old = new \/ ~HasName(old, dir)
    THEN dir
    ELSE Append(dir, DirEntry(new, dir[FirstNamed(old, dir)].inode_id))

DirAfterRemove(name, dir) ==
    IF ~HasName(name, dir)
    THEN dir
    ELSE [j \in 1 .. Len(dir) - 1 |->
             IF j = FirstNamed(name, dir) THEN dir[Len(dir)] ELSE dir[j]]

DirAfter(call, inode_id, dir) ==
    CASE call.op = "create" -> DirAfterCreate(call.name, inode_id, dir)
      [] call.op = "linkat" -> DirAfterLinkat(call.old, call.name, dir)
      [] call.op = "remove" -> DirAfterRemove(call.name, dir)
      [] OTHER -> dir

RaceOver == Len(fs_hist) = 2 /\ FsInFlight = {}

RaceStart == IF fs_hist[1].k = 0 THEN fs_hist[1].pre ELSE fs_hist[2].pre

RaceAppend == IF fs_hist[1].op \in Appending THEN fs_hist[1] ELSE fs_hist[2]

RaceRemove == IF fs_hist[1].op = "remove" THEN fs_hist[1] ELSE fs_hist[2]

RaceOrders ==
    LET new_inode_id == AllocInode(RaceStart.inode_bitmap)
    IN  { DirAfter(RaceRemove, new_inode_id,
                   DirAfter(RaceAppend, new_inode_id, RaceStart.dir)),
          DirAfter(RaceAppend, new_inode_id,
                   DirAfter(RaceRemove, new_inode_id, RaceStart.dir)) }

(***************************************************************************)
(* C23: when a create or an insert_link_entry on one hart has run          *)
(* concurrently with a remove_link_entry on another hart, the final root   *)
(* directory is the directory one of the two sequential orders of the two  *)
(* calls gives.                                                            *)
(***************************************************************************)
C23_DirectoryRaceSerializes ==
    RaceOver => Dirents(root_inode) \in RaceOrders

(***************************************************************************)
(* The call that returns in a step, and the directory it leaves.           *)
(***************************************************************************)
FsReturns == Len(fs_hist') = Len(fs_hist) + 1

ReturnedCall == fs_hist'[Len(fs_hist')]

CallBefore == fs_hist'[Len(fs_hist') - 1]

RemoveReturnsAlone ==
    /\ FsReturns
    /\ ReturnedCall.op = "remove"
    /\ ReturnedCall.alone

RemoveContract ==
    LET name == ReturnedCall.name
        before == ReturnedCall.pre.dir
        after == Dirents(root_inode')
        n == Len(before)
    IN  IF HasName(name, before)
        THEN /\ ReturnedCall.ret = 0
             /\ Len(after) = n - 1
             /\ \A j \in 1 .. n - 1 :
                    after[j] = IF j = FirstNamed(name, before)
                               THEN before[n]
                               ELSE before[j]
        ELSE /\ ReturnedCall.ret = -1
             /\ after = before
             /\ root_inode'.size = ReturnedCall.pre.size

(***************************************************************************)
(* C24: remove_link_entry(name), run with no other call in flight on a     *)
(* directory of n entries whose first entry named name is at index i,      *)
(* returns 0 and leaves n - 1 entries, index i holding the former last     *)
(* entry and every other index below n - 1 what it held; when no entry is  *)
(* named name it returns -1 and the directory is as before.                *)
(***************************************************************************)
C24_RemoveSwapsLastIntoHole == [][RemoveReturnsAlone => RemoveContract]_vars

C24_Witness ==
    \E c \in 1 .. Len(fs_hist) :
        /\ fs_hist[c].op = "remove"
        /\ fs_hist[c].alone
        /\ fs_hist[c].ret = 0
        /\ Len(fs_hist[c].pre.dir) = 3
        /\ fs_hist[c].remove_index = 0
        /\ Len(fs_hist) = c
        /\ Len(Dirents(root_inode)) = 2

(***************************************************************************)
(* C25: for an existing name a and an unused name b,                       *)
(* insert_link_entry(a, b) followed by remove_link_entry(b), no other call *)
(* between or during them, leaves the directory entries, the set of        *)
(* allocated data blocks and the inode bitmap as before the first call,    *)
(* also when the entry of b took a new data block.                         *)
(***************************************************************************)
LinkThenUnlink ==
    /\ RemoveReturnsAlone
    /\ Len(fs_hist') >= 2
    /\ CallBefore.op = "linkat"
    /\ CallBefore.alone
    /\ CallBefore.name = ReturnedCall.name
    /\ HasName(CallBefore.old, CallBefore.pre.dir)
    /\ ~HasName(CallBefore.name, CallBefore.pre.dir)

LinkUnlinkRestores ==
    /\ Dirents(root_inode') = CallBefore.pre.dir
    /\ data_bitmap' = CallBefore.pre.data_bitmap
    /\ inode_bitmap' = CallBefore.pre.inode_bitmap

C25_LinkUnlinkIsIdentity == [][LinkThenUnlink => LinkUnlinkRestores]_vars

C25_Witness ==
    /\ Len(fs_hist) >= 2
    /\ FsInFlight = {}
    /\ LET link == fs_hist[Len(fs_hist) - 1]
           unlink == fs_hist[Len(fs_hist)]
       IN  /\ link.op = "linkat" /\ link.alone /\ link.found # None
           /\ unlink.op = "remove" /\ unlink.alone /\ unlink.ret = 0
           /\ unlink.name = link.name
           /\ ~HasName(link.name, link.pre.dir)
           /\ Len(link.pre.dir) = EntriesPerBlock
           /\ Cardinality(unlink.pre.data_bitmap) =
                  Cardinality(link.pre.data_bitmap) + 1
           /\ data_bitmap = link.pre.data_bitmap

(***************************************************************************)
(* C26: remove_link_entry removes a directory entry only: the size, the    *)
(* data blocks and the bitmap bits of every file inode are as before the   *)
(* call; and after create(a), write_at through a, a link of a to an unused *)
(* name b and remove_link_entry(a), find(b) gives the inode of a and       *)
(* reading it gives the bytes written.                                     *)
(***************************************************************************)
RemoveLeavesInodes ==
    /\ files' = ReturnedCall.pre.files
    /\ inode_bitmap' = ReturnedCall.pre.inode_bitmap
    /\ \A i \in FileInodes : SeqRange(files'[i].direct) \subseteq data_bitmap'

CreateWriteLinkUnlink ==
    /\ RemoveReturnsAlone
    /\ Len(fs_hist') = 4
    /\ \A c \in 1 .. 4 : fs_hist'[c].alone
    /\ fs_hist'[1].op = "create" /\ fs_hist'[1].found # None
    /\ fs_hist'[2].op = "write_at" /\ Some(fs_hist'[2].ino) = fs_hist'[1].found
    /\ fs_hist'[3].op = "linkat" /\ fs_hist'[3].old = fs_hist'[1].name
    /\ fs_hist'[3].name # fs_hist'[1].name
    /\ ~HasName(fs_hist'[3].name, fs_hist'[3].pre.dir)
    /\ ReturnedCall.name = fs_hist'[1].name

ReadThroughLink ==
    LET b == fs_hist'[3].name
        buf == fs_hist'[2].buf
    IN  /\ FindInodeId(b, root_inode') = fs_hist'[1].found
        /\ ReadAt(0, Len(buf), files'[fs_hist'[1].found[1]]) = buf

C26_UnlinkKeepsInode ==
    [][(RemoveReturnsAlone => RemoveLeavesInodes)
       /\ (CreateWriteLinkUnlink => ReadThroughLink)]_vars

C26_Witness ==
    /\ Len(fs_hist) = 4
    /\ FsInFlight = {}
    /\ \A c \in 1 .. 4 : fs_hist[c].alone
    /\ fs_hist[1].op = "create" /\ fs_hist[1].name = "a"
    /\ fs_hist[2].op = "write_at" /\ fs_hist[2].buf = << 8, 9 >>
    /\ fs_hist[3].op = "linkat" /\ fs_hist[3].old = "a"
    /\ fs_hist[3].name = "b"
    /\ fs_hist[4].op = "remove" /\ fs_hist[4].name = "a"
    /\ fs_hist[4].ret = 0
    /\ FindInodeId("b", root_inode) = Some(1)
    /\ FindInodeId("a", root_inode) = None
    /\ files[1].data = << 8, 9 >>

(***************************************************************************)
(* C27: whatever create, insert_link_entry, remove_link_entry and write_at *)
(* calls have been made, the size of the root directory is a multiple of   *)
(* 32 and the inode id of every entry is allocated in the inode bitmap.    *)
(***************************************************************************)
C27_DirectoryWellFormed ==
    /\ root_inode.size % DIRENT_SZ = 0
    /\ \A i \in 1 .. FileCount(root_inode) :
           root_inode.data[i].inode_id \in inode_bitmap

C27_Witness ==
    /\ FsInFlight = {}
    /\ { fs_hist[c].op : c \in 1 .. Len(fs_hist) } =
           { "create", "linkat", "remove", "write_at" }
    /\ fs_hist[Len(fs_hist)].op = "remove"
    /\ fs_hist[Len(fs_hist)].ret = 0
    /\ FileCount(root_inode) = 1
    /\ root_inode.data[1].inode_id = 1

(***************************************************************************)
(* C28: sys_linkat(old, new), run with no other call in flight, returns 0  *)
(* only when it appended an entry named new carrying the inode id of old,  *)
(* and returns -1 leaving the directory as before when old equals new or   *)
(* no entry is named old.                                                  *)
(***************************************************************************)
LinkatReturnsAlone ==
    /\ FsReturns
    /\ ReturnedCall.op = "linkat"
    /\ ReturnedCall.alone

LinkatAppended ==
    /\ HasName(ReturnedCall.old, ReturnedCall.pre.dir)
    /\ Dirents(root_inode') =
           Append(ReturnedCall.pre.dir,
                  DirEntry(ReturnedCall.name,
                           ReturnedCall.pre.dir[
                               FirstNamed(ReturnedCall.old,
                                          ReturnedCall.pre.dir)].inode_id))

LinkatErrorCase ==
    \/ ReturnedCall.old = ReturnedCall.name
    \/ ~HasName(ReturnedCall.old, ReturnedCall.pre.dir)

C28_LinkatContract ==
    [][LinkatReturnsAlone =>
           /\ ReturnedCall.ret = 0 => LinkatAppended
           /\ LinkatErrorCase =>
                  /\ ReturnedCall.ret = -1
                  /\ Dirents(root_inode') = ReturnedCall.pre.dir]_vars

(***************************************************************************)
(* sys_set_priority(prio), called by the thread running on a hart: the     *)
(* function logs the call and returns -1; it reads no field of the task    *)
(* and writes none.                                                        *)
(***************************************************************************)
PrioArgs == { -1, 0, 1, 2, 4, 16 }

SysSetPriority(h, prio) ==
    /\ current[h] # None
    /\ last' = [kind |-> "sys_set_priority", tid |-> current[h][1],
                id |-> prio, ret |-> -1, pre |-> priority[current[h][1]]]
    /\ UNCHANGED << schedVars, smpVars, overflow_checks, detect, mutexVars,
                    semVars, cv_wait, res_count, tstate, sysVars >>

NextPrio ==
    \/ NextSched
    \/ \E h \in Harts, prio \in PrioArgs : SysSetPriority(h, prio)

SpecPrio == InitSched /\ [][NextPrio]_vars

SetPriorityReturns ==
    /\ last' # last
    /\ last'.kind = "sys_set_priority"

(***************************************************************************)
(* C29: sys_set_priority(p) returns 0 and makes p the priority of the      *)
(* calling thread for every p >= 2, and returns -1 leaving the priority    *)
(* as it was for every p < 2.                                              *)
(***************************************************************************)
C29_SetPriorityContract ==
    [][SetPriorityReturns =>
           IF last'.id >= 2
           THEN /\ last'.ret = 0
                /\ priority'[last'.tid] = last'.id
           ELSE /\ last'.ret = -1
                /\ priority'[last'.tid] = last'.pre]_vars

(***************************************************************************)
(* The stop slot.  A thread that exits or blocks takes itself out of       *)
(* Processor.current and goes on executing on its kernel stack until       *)
(* schedule switches the hart to its idle context.  An exiting thread      *)
(* calls add_stopping_task on itself before schedule.  sys_sleep registers *)
(* a timer for the caller and then blocks; the timer arm of trap_handler   *)
(* on any hart wakes the threads whose timers expired (wakeup_task,        *)
(* add_task) and suspends the thread that took the interrupt.              *)
(***************************************************************************)
stopRest == << stride, priority, fetched, iter, dispatched, stride0,
               nthreads, smpVars, syncVars, procVars, mmVars, trapVars,
               fsVars >>

Leaving(t, at) == Some([task |-> t, at |-> at])

\* the thread on whose kernel stack hart h executes (an Option)
OnStack(h) ==
    IF leaving[h] # None THEN Some(leaving[h][1].task) ELSE current[h]

\* add_task: the first hart among those with the shortest ready queue
MinHartId(rq) ==
    SetMin({ h \in Harts : \A g \in Harts : Len(rq[h]) <= Len(rq[g]) })

AddTask(rq, t) == [rq EXCEPT ![MinHartId(rq)] = Add(@, t)]

\* sys_sleep: add_timer(expire_ms, task)
SysSleepAddTimer(h) ==
    /\ leaving[h] = None
    /\ current[h] # None
    /\ timers' = timers \cup { current[h][1] }
    /\ leaving' = [leaving EXCEPT ![h] = Leaving(current[h][1], "sleep")]
    /\ UNCHANGED << ready_queue, current, stop_task, stopRest >>

\* block_current_and_run_next: take_current_task, task_status = Blocked
BlockTakeCurrent(h) ==
    /\ leaving[h] # None
    /\ leaving[h][1].at = "sleep"
    /\ current' = [current EXCEPT ![h] = None]
    /\ leaving' = [leaving EXCEPT ![h] = Leaving(leaving[h][1].task, "block")]
    /\ UNCHANGED << ready_queue, stop_task, timers, stopRest >>

\* exit_current_and_run_next: take_current_task
ExitTakeCurrent(h) ==
    /\ leaving[h] = None
    /\ current[h] # None
    /\ current' = [current EXCEPT ![h] = None]
    /\ leaving' = [leaving EXCEPT ![h] = Leaving(current[h][1], "exit")]
    /\ UNCHANGED << ready_queue, stop_task, timers, stopRest >>

\* add_stopping_task(task): TASK_MANAGER[get_processor_id()].add_stop(task)
\* replaces the occupant of the slot of this hart
AddStoppingTask(h) ==
    /\ leaving[h] # None
    /\ leaving[h][1].at = "exit"
    /\ stop_task' = [stop_task EXCEPT ![h] = Some(leaving[h][1].task)]
    /\ leaving' = [leaving EXCEPT
                      ![h] = Leaving(leaving[h][1].task, "stopped")]
    /\ UNCHANGED << ready_queue, current, timers, stopRest >>

\* schedule: __switch(switched_task_cx_ptr, idle_task_cx_ptr)
Schedule(h) ==
    /\ leaving[h] # None
    /\ leaving[h][1].at \in { "block", "stopped" }
    /\ leaving' = [leaving EXCEPT ![h] = None]
    /\ UNCHANGED << ready_queue, current, stop_task, timers, stopRest >>

\* the timer arm of trap_handler: check_timer wakes the threads of the
\* expired timers, then suspend_current_and_run_next
TimerTrap(h, expired) ==
    /\ leaving[h] = None
    /\ current[h] # None
    /\ expired \subseteq timers
    /\ Cardinality(expired) <= 1
    /\ timers' = timers \ expired
    /\ LET woken == IF expired = {}
                    THEN ready_queue
                    ELSE AddTask(ready_queue, SetMin(expired))
       IN  ready_queue' = [woken EXCEPT ![h] = Add(@, current[h][1])]
    /\ current' = [current EXCEPT ![h] = None]
    /\ UNCHANGED << stop_task, leaving, stopRest >>

Ascending(S) ==
    CHOOSE s \in [1 .. Cardinality(S) -> S] :
        \A i \in 1 .. Cardinality(S), j \in 1 .. Cardinality(S) :
            i < j => s[i] < s[j]

\* the threads are spread over the ready queues, as add_task leaves them
InitStop ==
    /\ nthreads = MaxThreads
    /\ \E S \in SUBSET Threads :
           ready_queue = [h \in Harts |->
                             IF h = 0 THEN Ascending(S)
                             ELSE IF h = 1 THEN Ascending(Threads \ S)
                             ELSE << >>]
    /\ current = [h \in Harts |-> None]
    /\ stride = [t \in Threads |-> 0]
    /\ priority \in [Threads -> PriorityChoices]
    /\ stride0 = stride
    /\ fetched = [pre |-> << >>, ret |-> None, post |-> << >>, st |-> stride,
                  n |-> 0]
    /\ iter = 0
    /\ dispatched = {}
    /\ pid2pcb = {}
    /\ SmpAtRest
    /\ SysAtRest
    /\ SyncAtRest

NextStop ==
    \/ \E h \in Harts : leaving[h] = None /\ RunTasksDispatch(h)
    \/ \E h \in Harts : leaving[h] = None /\ RunTasksIdle(h)
    \/ \E h \in Harts : SysSleepAddTimer(h)
    \/ \E h \in Harts : BlockTakeCurrent(h)
    \/ \E h \in Harts : ExitTakeCurrent(h)
    \/ \E h \in Harts : AddStoppingTask(h)
    \/ \E h \in Harts : Schedule(h)
    \/ \E h \in Harts, expired \in SUBSET Threads : TimerTrap(h, expired)

SpecStop == InitStop /\ [][NextStop]_vars

SlotChanges(h) == stop_task[h] # None /\ stop_task'[h] # stop_task[h]

ByAddStoppingTask(h) ==
    /\ leaving[h] # None
    /\ leaving[h][1].at = "exit"
    /\ stop_task'[h] = Some(leaving[h][1].task)
    /\ OnStack(h) # stop_task[h]

OccupantOffEveryStack(h) == \A g \in Harts : OnStack(g) # stop_task[h]

(***************************************************************************)
(* C30: the stop slot of a hart holds at most one thread; its occupant is  *)
(* replaced only by a later add_stopping_task on the same hart, made by    *)
(* another thread the hart dispatched after it had switched off the        *)
(* occupant's kernel stack; and never while some hart still executes on    *)
(* the kernel stack of the occupant.                                       *)
(***************************************************************************)
C30_StopSlotKeepsStack ==
    [][\A h \in Harts :
           /\ Len(stop_task'[h]) <= 1
           /\ SlotChanges(h) =>
                  ByAddStoppingTask(h) /\ OccupantOffEveryStack(h)]_vars

C30_SlotReplacedOnlyByAddStop ==
    [][\A h \in Harts :
           /\ Len(stop_task'[h]) <= 1
           /\ SlotChanges(h) => ByAddStoppingTask(h)]_vars

(***************************************************************************)
(* C38: the names in the root directory are unique: after any sequence of  *)
(* create, sys_linkat and remove_link_entry calls, none overlapping        *)
(* another, no two entries of the root directory carry the same name.      *)
(***************************************************************************)
CallsInSequence ==
    /\ FsInFlight = {}
    /\ \A c \in 1 .. Len(fs_hist) : fs_hist[c].alone

C38_NamesUnique ==
    CallsInSequence =>
        \A i \in 1 .. FileCount(root_inode), j \in 1 .. FileCount(root_inode) :
            root_inode.data[i].name = root_inode.data[j].name => i = j

(***************************************************************************)
(* C37: the assertion of sys_waitpid never fails: for every child in the   *)
(* children list with is_zombie set, the list holds the only strong        *)
(* reference to the child's PCB, whatever the other harts are doing.       *)
(***************************************************************************)
C37_ZombieHasOneReference ==
    \A i \in 1 .. Len(children) :
        is_zombie[children[i]] => AssertStrongCount(children[i])

(***************************************************************************)
(* The accounting entries are usize: a value below 0 stands for the value  *)
(* it wraps to.  a is one less (one more) than b as a usize.               *)
(***************************************************************************)
OneLess(a, b) == b # 0 /\ a = b - 1

OneMore(a, b) == b # -1 /\ a = b + 1

ReturnedZero == LockOrDown /\ last.ret = Some(0)

\* C32: when sys_mutex_lock(m) or sys_semaphore_down(s) called by thread t
\* returns 0, need[t][r] equals its value before the call, available[r] is
\* one less and allocated[t][r] one more than before, and every other entry
\* of the three is unchanged.
C32_ZeroReturnAccounting ==
    ReturnedZero =>
        LET now == Snapshot(last.kind)
            pre == last.pre
            t == last.tid
            r == last.id
        IN  /\ now.need = pre.need
            /\ OneLess(now.available[r], pre.available[r])
            /\ \A o \in DOMAIN now.available :
                  o # r => now.available[o] = pre.available[o]
            /\ OneMore(now.allocated[t][r], pre.allocated[t][r])
            /\ \A u \in DOMAIN now.allocated :
                  \A o \in DOMAIN now.allocated[u] :
                      << u, o >> # << t, r >>
                          => now.allocated[u][o] = pre.allocated[u][o]

\* C35: no call decrements an accounting entry that is 0: whenever
\* sys_semaphore_up or sys_mutex_unlock runs for thread t on resource r,
\* allocated[t][r] is at least 1 beforehand.
C35_NoDecrementAtZero ==
    [][/\ \A t \in DOMAIN semaphore_allocated :
             \A x \in DOMAIN semaphore_allocated[t] :
                 SysSemaphoreUp(t, x) => semaphore_allocated[t][x] >= 1
       /\ \A t \in DOMAIN mutex_allocated :
             \A m \in DOMAIN mutex_allocated[t] :
                 SysMutexUnlock(t, m) => mutex_allocated[t][m] >= 1]_vars

\* C36: whenever mutex m is unlocked, also while the thread that held it
\* sleeps in sys_condvar_wait, mutex_available[m] is 1 and no thread has
\* mutex_allocated[t][m] = 1.
C36_UnlockedMutexIsAvailable ==
    \A m \in DOMAIN mutex_owner :
        mutex_owner[m] = None =>
            /\ mutex_available[m] = 1
            /\ \A t \in DOMAIN mutex_allocated : mutex_allocated[t][m] # 1

(***************************************************************************)
(* Hart h, idle before the step, runs thread t after it: run_tasks has     *)
(* dispatched t.                                                           *)
(***************************************************************************)
Dispatches(h, t) == current[h] = None /\ current'[h] = Some(t)

QueuePlaces(t) ==
    { << h, i >> \in Harts \X (1 .. MaxThreads + 1) :
          i <= Len(ready_queue[h]) /\ ready_queue[h][i] = t }

RunningOn(t) == { h \in Harts : current[h] = Some(t) }

\* C34: no thread is at the same time the current task of a hart and in a
\* ready queue, no thread occurs twice in the ready queues of all harts, and
\* no thread is current on two harts.
C34_ThreadInOnePlace ==
    \A t \in Threads :
        /\ ~(RunningOn(t) # {} /\ QueuePlaces(t) # {})
        /\ Cardinality(QueuePlaces(t)) <= 1
        /\ Cardinality(RunningOn(t)) <= 1

(***************************************************************************)
(* remove_task.  A thread that exits its process removes the other threads *)
(* of the process from the ready queue with remove_task, on the hart it    *)
(* runs on; threads come into the queues of both harts through add_task.   *)
(***************************************************************************)

(***************************************************************************)
(* TaskManager::remove: the first entry of the queue that is the task is   *)
(* removed, if there is one.                                               *)
(***************************************************************************)
TaskManagerRemove(q, t) ==
    LET found == { i \in 1 .. Len(q) : q[i] = t }
    IN  IF found = {} THEN q ELSE RemoveAt(q, SetMin(found))

(***************************************************************************)
(* remove_task(t) called on hart h: TASK_MANAGER[get_processor_id()] only. *)
(* The call is recorded with the ready queues it leaves at its return.     *)
(***************************************************************************)
RemoveTask(h, t) ==
    /\ current[h] # None
    /\ current[h][1] # t
    /\ ready_queue' = [ready_queue EXCEPT ![h] = TaskManagerRemove(@, t)]
    /\ last' = [kind |-> "remove_task", tid |-> t, id |-> h,
                post |-> ready_queue']
    /\ UNCHANGED << current, stride, priority, fetched, iter, dispatched,
                    stride0, nthreads, smpVars, overflow_checks, detect,
                    mutexVars, semVars, cv_wait, res_count, tstate, sysVars >>

(***************************************************************************)
(* The thread running on hart h gives up the hart and is enqueued by       *)
(* add_task, on the hart whose queue is shortest.                          *)
(***************************************************************************)
SuspendAddTask(h) ==
    /\ current[h] # None
    /\ ready_queue' = AddTask(ready_queue, current[h][1])
    /\ current' = [current EXCEPT ![h] = None]
    /\ UNCHANGED << stopVars, stopRest >>

NextRemove ==
    \/ \E h \in Harts : RunTasksDispatch(h)
    \/ \E h \in Harts : RunTasksIdle(h)
    \/ \E h \in Harts : SuspendAddTask(h)
    \/ \E h \in Harts, t \in Threads : RemoveTask(h, t)

SpecRemove == InitStop /\ [][NextRemove]_vars

Queued(rq, t) == \E h \in Harts : \E i \in 1 .. Len(rq[h]) : rq[h][i] = t

\* C39: after remove_task(t) returns, t is in no hart's ready queue, also
\* when t was enqueued on a hart other than the one that calls remove_task.
C39_RemovedFromEveryQueue ==
    last.kind = "remove_task" => ~Queued(last.post, last.tid)

(***************************************************************************)
(* sys_fstat.  The descriptor table of the calling process holds a file    *)
(* that is not inode-backed (the console) in slot 0, nothing in slot 1     *)
(* and an OSInode in slot 2.  The files are created, linked and unlinked   *)
(* under two names and never written.                                      *)
(***************************************************************************)
Fds == 0 .. 3

Stdio == [kind |-> "stdio"]

OSInode(ino) == [kind |-> "inode", ino |-> ino]

FdTable(ino) == << Some(Stdio), None, Some(OSInode(ino)) >>

(***************************************************************************)
(* Inode::get_link_count_from_root: the loop over the file_count entries   *)
(* of the root directory, from entry i on.                                 *)
(***************************************************************************)
RECURSIVE CountFrom(_, _, _)
CountFrom(inode_id, di, i) ==
    IF i >= FileCount(di)
    THEN 0
    ELSE (IF di.data[i + 1].inode_id = inode_id THEN 1 ELSE 0)
             + CountFrom(inode_id, di, i + 1)

GetLinkCountFromRoot(inode_id, di) == CountFrom(inode_id, di, 0)

StatModeOf(ino) == IF ino = 0 THEN "DIR" ELSE "FILE"

(***************************************************************************)
(* sys_fstat(fd, st) on hart h: -1 for an fd beyond the table, an empty    *)
(* slot or a file that is not an OSInode; else the Stat is written and     *)
(* the call returns 0.  The link count is read under the filesystem lock.  *)
(***************************************************************************)
SysFstat(h, fd, table) ==
    /\ fpc[h] = "idle"
    /\ LET call == ("fd" :> fd) @@ ("table" :> table)
                       @@ FsCall(h, "fstat", "", "", 0, << >>)
       IN  IF fd >= Len(table)
           THEN Returned(h, [call EXCEPT !.ret = -1])
           ELSE IF table[fd + 1] = None
           THEN Returned(h, [call EXCEPT !.ret = -1])
           ELSE IF table[fd + 1][1].kind # "inode"
           THEN Returned(h, [call EXCEPT !.ret = -1])
           ELSE /\ fs_lock = None
                /\ LET inode_id == table[fd + 1][1].ino
                       tmp_stat ==
                           [dev |-> 0, ino |-> inode_id,
                            mode |-> StatModeOf(inode_id),
                            nlink |-> GetLinkCountFromRoot(inode_id,
                                                           root_inode)]
                   IN  Returned(h, [call EXCEPT !.ret = 0,
                                                !.ino = inode_id,
                                                !.found = Some(tmp_stat)])
    /\ UNCHANGED << root_inode, files, inode_bitmap, data_bitmap, fs_lock,
                    fsRest >>

(***************************************************************************)
(* One sys_fstat call may follow the last of the MaxFsCalls calls.         *)
(***************************************************************************)
FstatWithinBounds == Len(fs_hist) + Cardinality(FsInFlight) <= MaxFsCalls

FstatNames == { "a", "c" }

NextFstat ==
    \/ \E h \in Harts, name \in FstatNames :
           /\ FsCallsWithinBounds /\ DirWithinBounds /\ InodesWithinBounds
           /\ CreateFind(h, name)
    \/ \E h \in Harts : CreateAppend(h)
    \/ \E h \in Harts, old \in FstatNames, new \in FstatNames :
           FsCallsWithinBounds /\ DirWithinBounds /\ SysLinkat(h, old, new)
    \/ \E h \in Harts : InsertLinkAppend(h)
    \/ \E h \in Harts, name \in FstatNames :
           FsCallsWithinBounds /\ RemoveScan(h, name)
    \/ \E h \in Harts : RemoveRead(h)
    \/ \E h \in Harts : RemoveWrite(h)
    \/ \E h \in Harts : RemoveDecrease(h)
    \/ \E h \in Harts : RemoveDealloc(h)
    \/ \E h \in Harts, fd \in Fds, ino \in Inodes :
           /\ FstatWithinBounds
           /\ ino \in inode_bitmap
           /\ fd # 2 => ino = 0
           /\ SysFstat(h, fd, FdTable(ino))

SpecFstat == InitFs /\ [][NextFstat]_vars

FstatReturns == FsReturns /\ ReturnedCall.op = "fstat"

InodeBacked(fd, table) ==
    /\ fd < Len(table)
    /\ table[fd + 1] # None
    /\ table[fd + 1][1].kind = "inode"

EntriesOf(ino, dir) == { j \in 1 .. Len(dir) : dir[j].inode_id = ino }

(***************************************************************************)
(* The calls of the history, each made with no other call in flight, that  *)
(* linked a name of inode ino or unlinked one of its names, and returned   *)
(* 0.                                                                      *)
(***************************************************************************)
LinksOf(ino, hist) ==
    { c \in 1 .. Len(hist) :
          /\ hist[c].op = "linkat"
          /\ hist[c].ret = 0
          /\ \E j \in EntriesOf(ino, hist[c].pre.dir) :
                 hist[c].pre.dir[j].name = hist[c].old }

UnlinksOf(ino, hist) ==
    { c \in 1 .. Len(hist) :
          /\ hist[c].op = "remove"
          /\ hist[c].ret = 0
          /\ \E j \in EntriesOf(ino, hist[c].pre.dir) :
                 hist[c].pre.dir[j].name = hist[c].name }

AllAlone(hist) == \A c \in 1 .. Len(hist) : hist[c].alone

\* C31: for a descriptor of an inode-backed file sys_fstat returns 0 with
\* nlink the number of root-directory entries with the file's inode id at
\* that moment, which is 1 + the successful links - the successful unlinks
\* of its names; for an fd beyond the table, an empty slot or a file that is
\* not inode-backed it returns -1.
C31_FstatContract ==
    [][FstatReturns =>
           LET c == ReturnedCall
           IN  IF InodeBacked(c.fd, c.table)
               THEN /\ c.ret = 0
                    /\ c.found[1].nlink =
                           Cardinality(EntriesOf(c.ino,
                                                 Dirents(root_inode)))
                    /\ (AllAlone(fs_hist') /\ c.ino \in FileInodes) =>
                           c.found[1].nlink =
                               1 + Cardinality(LinksOf(c.ino, fs_hist))
                                 - Cardinality(UnlinksOf(c.ino, fs_hist))
               ELSE c.ret = -1]_vars

=============================================================================
